---- MODULE Spec2Model ----
\* A model of goref's reference-graph reconstruction engine (package proc):
\* the GC-mask bit iterator, the span visit mask, the typed walk (findRef /
\* findObject), the final-mark pass (finalMark / markObject), the profile
\* accumulator and the classic map-bucket iterator.
EXTENDS Integers, Sequences, FiniteSets, TLC

VARIABLES
    \* ---- the analyzer run (ObjectReference) ----
    tgt,          \* the stopped target: memory, roots, GC bitmap (read-only)
    maxRefDepth,  \* process-wide depth bound of the reference chain
    phase,        \* position of ObjectReference in its sequence of loops
    rootIdx,      \* index of the next root of the current loop
    stack,        \* call stack of findRef / markObject activations
    finalMarks,   \* HeapScope.finalMarks, in append order
    fmIdx,        \* index of the finalMarks entry being drained
    fmAcc,        \* size/count accumulated by the running finalMark call
    nodes,        \* profileBuilder.nodes: chain -> (count, size)
    visitMask,    \* spanInfo.visitMask of the heap span
    ptrMask,      \* spanInfo.ptrMask of the heap span
    segVisit,     \* segment.visitMask of the bss/data segments and the stack
    hist,         \* history: counters of calls and reads made so far
    \* ---- one gcMaskBitIterator driven directly (heap_test.go) ----
    bHb,          \* the iterator: base, end, maskBase, addr
    bMask,        \* its mask words
    bMode,        \* which driver runs: drain, test loop, readPointer
    bOut,         \* addresses returned so far by nextPtr(true)
    bLast,        \* the last call made and what it returned
    bReads,       \* number of target-memory reads made
    \* ---- one classic map iterator (mapiter.go) ----
    hm,           \* the hmap in target memory (read-only)
    it,           \* the mapIteratorClassic
    yielded,      \* slots for which next() returned true, in order
    mapRead,      \* the cells whose tophash byte next() has read, in order
    \* ---- one profileBuilder driven directly (protobuf.go) ----
    pbStrings,    \* profileBuilder.strings
    pbIdxs,       \* the pprofIndex values built so far by pushHead
    pbNodes,      \* profileBuilder.nodes: key string -> (count, size)
    pbLog,        \* the addReference calls made so far, in order
    pbOut,        \* the profile written by flush, if any
    \* ---- one memCache reader (gcmask.go) ----
    mc,           \* the reader returned by cacheMemory
    mcUnder,      \* the reads the underlying reader has served, in order
    mcLast,       \* the last ReadMemory call and its result
    \* ---- the start of ObjectReference (reference.go) ----
    orStep,       \* position of ObjectReference in its initialization
    orFile,       \* state of the output file
    orRet,        \* what ObjectReference returned
    \* ---- one call of a function of the package, made directly ----
    ar,           \* the last call of Address.Sub, Address.Add or CeilDivide
    \* ---- the span index built by readAllSpans (heap.go) ----
    si,           \* runtime constants, mheap_.allspans, arenaInfo, last lookup
    \* ---- one object of an allocation-header span touched (heap.go) ----
    gc,           \* the span, its type data and its ptrMask after copyGCMask
    \* ---- one swiss map iterator (mapiter.go) ----
    sw            \* the map in target memory, the iterator, the slots yielded

runVars == <<tgt, maxRefDepth, phase, rootIdx, stack, finalMarks, fmIdx, fmAcc,
             nodes, visitMask, ptrMask, segVisit, hist>>
bitVars == <<bHb, bMask, bMode, bOut, bLast, bReads>>
mapVars == <<hm, it, yielded, mapRead>>
pbVars == <<pbStrings, pbIdxs, pbNodes, pbLog, pbOut>>
mcVars == <<mc, mcUnder, mcLast>>
orVars == <<orStep, orFile, orRet>>
arVars == <<ar>>
siVars == <<si>>
gcVars == <<gc>>
swVars == <<sw>>
fnVars == <<arVars, siVars, gcVars, swVars>>
vars == <<runVars, bitVars, mapVars, pbVars, mcVars, orVars, fnVars>>

-----------------------------------------------------------------------------
\* Address arithmetic (address.go).  Addresses are AddrBits wide in the model;
\* the code's are 64 bits wide.

AddrBits == 16
AddrMod == 2 ^ AddrBits

\* Address.Sub: int64(a - b), the unsigned difference reinterpreted as signed.
Sub(a, b) ==
    LET d == (a - b) % AddrMod
    IN  IF d >= AddrMod \div 2 THEN d - AddrMod ELSE d

\* Address.Add: a + Address(x), modulo the address width.
Add(a, x) == (a + x) % AddrMod

PtrSize == 8

Min(a, b) == IF a < b THEN a ELSE b

-----------------------------------------------------------------------------
\* gcMaskBitIterator (gcmask.go).  A mask is a function from word index
\* 0..len-1 to the set of bit positions (0..63) that are set in that word.
\* An iterator is a record [base, end, maskBase, addr]; NoHB is the nil
\* iterator.  PanicAddr stands for a Go run-time panic (index out of range).

NoHB == [nil |-> TRUE]
PanicAddr == 0 - 1

\* The states of the parts of the model that a specification leaves alone.
RunIdle ==
    /\ tgt = [mem |-> <<>>]
    /\ maxRefDepth = 0
    /\ phase = "idle"
    /\ rootIdx = 0
    /\ stack = <<>>
    /\ finalMarks = <<>>
    /\ fmIdx = 0
    /\ fmAcc = [size |-> 0, count |-> 0]
    /\ nodes = <<>>
    /\ visitMask = <<>>
    /\ ptrMask = <<>>
    /\ segVisit = <<>>
    /\ hist = <<>>

BitsIdle ==
    /\ bHb = NoHB
    /\ bMask = <<>>
    /\ bMode = [mode |-> "idle", O |-> {}]
    /\ bOut = <<>>
    /\ bLast = [op |-> "init", at |-> 0, ret |-> 0, err |-> "nil", before |-> {}]
    /\ bReads = 0

MapIdle ==
    /\ hm = <<>>
    /\ it = <<>>
    /\ yielded = <<>>
    /\ mapRead = <<>>

PbIdle ==
    /\ pbStrings = <<>>
    /\ pbIdxs = {}
    /\ pbNodes = <<>>
    /\ pbLog = <<>>
    /\ pbOut = [flushed |-> FALSE]

McIdle ==
    /\ mc = [nil |-> TRUE]
    /\ mcUnder = <<>>
    /\ mcLast = [op |-> "init"]

OrIdle ==
    /\ orStep = "idle"
    /\ orFile = "absent"
    /\ orRet = "none"

ArIdle == ar = [op |-> "init"]

SiIdle == si = [op |-> "idle"]

GcIdle == gc = [op |-> "idle"]

SwIdle == sw = [op |-> "idle"]

FnIdle == ArIdle /\ SiIdle /\ GcIdle /\ SwIdle

EmptyMask(len) == [w \in 0..(len - 1) |-> {}]

\* hb.mask[offset/8/64] |= 1 << (offset / 8 % 64), for every offset of O.
MaskOf(O, len) ==
    [w \in 0..(len - 1) |->
        {(o \div 8) % 64 : o \in {x \in O : (x \div 8) \div 64 = w}}]

\* bits.TrailingZeros64(word >> i)
TrailingZeros64Shr(word, i) ==
    IF \E k \in word : k >= i
    THEN (CHOOSE k \in word : k >= i /\ \A l \in word : l >= i => k <= l) - i
    ELSE 64

\* The loop of nextPtr, from startOffset on: whether an address was found
\* (the code returns address 0 for "not found"), or a panic.
RECURSIVE nextPtrLoop(_, _, _, _)
nextPtrLoop(mask, maskBase, end, startOffset) ==
    IF ~(startOffset < Sub(end, maskBase)) THEN [found |-> FALSE, addr |-> 0]
    ELSE LET ptrIdx == (startOffset \div 8) \div 64
             i == (startOffset \div 8) % 64
         IN  IF ptrIdx \notin DOMAIN mask THEN [found |-> FALSE, addr |-> PanicAddr]
             ELSE LET j == TrailingZeros64Shr(mask[ptrIdx], i)
                  IN  IF j = 64
                      THEN nextPtrLoop(mask, maskBase, end, (ptrIdx + 1) * 64 * 8)
                      ELSE LET addr == Add(maskBase, startOffset + j * 8)
                           IN  IF addr >= end THEN [found |-> FALSE, addr |-> 0]
                               ELSE [found |-> TRUE, addr |-> addr]

\* A faulty variant of nextPtr's cursor update: the cursor is set to the address
\* found instead of the address after it.
nextPtrCursorStuck(addr) == addr

\* The cursor after nextPtr(true) returned addr.
nextPtrCursor(addr) == Add(addr, 8)

\* nextPtr(ack): the address returned (0 if none) and the iterator afterwards.
nextPtr(hb, mask, ack) ==
    IF hb = NoHB THEN [addr |-> 0, hb |-> hb]
    ELSE LET startOffset == Sub(hb.addr, hb.maskBase)
             endOffset == Sub(hb.end, hb.maskBase)
         IN  IF startOffset >= endOffset \/ startOffset < 0
             THEN [addr |-> 0, hb |-> hb]
             ELSE LET r == nextPtrLoop(mask, hb.maskBase, hb.end, startOffset)
                  IN  IF ~r.found THEN [addr |-> r.addr, hb |-> hb]
                      ELSE [addr |-> r.addr,
                            hb |-> IF ack THEN [hb EXCEPT !.addr = nextPtrCursor(r.addr)]
                                   ELSE hb]

\* The word of the mask in which resetGCMask clears the bit of an offset.
resetWordIndex(offset) == (offset \div 8) \div 64 + 1

\* A faulty variant of resetGCMask's range check: the upper end is not checked.
resetInRangeNoEnd(hb, addr) == ~(addr < hb.base)

\* resetGCMask's range check: addr < b.base || addr >= b.end fails.
resetInRange(hb, addr) == ~(addr < hb.base \/ addr >= hb.end)

\* resetGCMask(addr): err is "nil", "OutOfRange" or "panic".
resetGCMask(hb, mask, addr) ==
    IF hb = NoHB THEN [err |-> "nil", mask |-> mask]
    ELSE IF ~resetInRange(hb, addr) THEN [err |-> "OutOfRange", mask |-> mask]
    ELSE LET offset == Sub(addr, hb.maskBase)
             w == resetWordIndex(offset)
         IN  IF w \notin DOMAIN mask THEN [err |-> "panic", mask |-> mask]
             ELSE [err |-> "nil",
                   mask |-> [mask EXCEPT ![w] = @ \ {(offset \div 8) % 64}]]

newGCBitsIterator(base, end, maskBase) ==
    [base |-> base, end |-> end, maskBase |-> maskBase, addr |-> base]

\* readUintRaw of 8 bytes: a read outside mapped memory fails.
readUintRaw(mem, addr) ==
    IF addr \in DOMAIN mem THEN [err |-> "nil", val |-> mem[addr]]
    ELSE [err |-> "read", val |-> 0]

\* ReferenceVariable.readPointer (variables.go): resetGCMask, then the read.
\* reads is the number of target-memory reads it makes.
readPointer(hb, mask, mem, addr) ==
    LET r == resetGCMask(hb, mask, addr)
    IN  IF r.err # "nil"
        THEN [err |-> r.err, val |-> 0, mask |-> r.mask, reads |-> 0]
        ELSE LET v == readUintRaw(mem, addr)
             IN  [err |-> v.err, val |-> v.val, mask |-> r.mask, reads |-> 1]

\* ReferenceVariable.readUint64: range-checked only.
readUint64(hb, mem, addr) ==
    IF hb # NoHB /\ (addr < hb.base \/ addr >= hb.end)
    THEN [err |-> "OutOfRange", val |-> 0, reads |-> 0]
    ELSE LET v == readUintRaw(mem, addr)
         IN  [err |-> v.err, val |-> v.val, reads |-> 1]

-----------------------------------------------------------------------------
\* The stopped target of an analyzer run.  One heap span of 64 elements of
\* 16 bytes (its masks have two words), one bss and one data segment, one
\* goroutine with one frame, and the memory of the finalizer specials.

Layout ==
    [spanBase |-> 4096, spanSize |-> 1024, elemSize |-> 16,
     bssStart |-> 512, bssEnd |-> 528,
     dataStart |-> 256, dataEnd |-> 320,
     stackLo |-> 1024, stackHi |-> 1040,
     specials |-> 768]

ObjA == Layout.spanBase
ObjB == Add(Layout.spanBase, 16)
ObjC == Add(Layout.spanBase, 512)

\* maskLen of readHeap: spanSize / 8 / 64, one more if there is a remainder.
SpanMaskLen ==
    (Layout.spanSize \div 8) \div 64
        + (IF (Layout.spanSize \div 8) % 64 # 0 THEN 1 ELSE 0)

\* The DWARF types of the model: kind, Size() and struct fields.  The hchan
\* of the model keeps two of runtime.hchan's pointer words, buf and
\* recvq.first, in its 16 bytes; it has no dataqsiz, so that the length of
\* the buffer array is read as 0.
TypeOf(t) ==
    CASE t = "*Node" -> [kind |-> "Ptr", elem |-> "Node", size |-> 8, fields |-> <<>>]
      [] t = "*byte" -> [kind |-> "Ptr", elem |-> "byte", size |-> 8, fields |-> <<>>]
      [] t = "Node"  -> [kind |-> "Struct", elem |-> "", size |-> 16,
                         fields |-> << [name |-> "next. (*Node)", typ |-> "*Node", off |-> 0],
                                       [name |-> "raw. (*byte)", typ |-> "*byte", off |-> 8] >>]
      [] t = "finalizePtrType" -> [kind |-> "FinalizePtr", elem |-> "", size |-> 0, fields |-> <<>>]
      [] t = "func"  -> [kind |-> "Func", elem |-> "", size |-> 8, fields |-> <<>>]
      [] t = "byte"  -> [kind |-> "Other", elem |-> "", size |-> 1, fields |-> <<>>]
      [] t = "chan *Node" -> [kind |-> "Chan", elem |-> "hchan", size |-> 8, fields |-> <<>>]
      [] t = "hchan" -> [kind |-> "Struct", elem |-> "", size |-> 16,
                         fields |-> << [name |-> "buf", typ |-> "unsafe.Pointer", off |-> 0],
                                       [name |-> "recvq.first", typ |-> "*sudog", off |-> 8] >>]
      [] t = "[0]*Node" -> [kind |-> "Array", elem |-> "*Node", size |-> 0, fields |-> <<>>]
      [] OTHER       -> [kind |-> "Other", elem |-> "", size |-> 0, fields |-> <<>>]

\* The word addresses of [start, end).
WordsOf(start, end) == {a \in start..(end - 1) : a % 8 = 0}

MappedWords ==
    WordsOf(Layout.bssStart, Layout.bssEnd)
      \cup WordsOf(Layout.dataStart, Layout.dataEnd)
      \cup WordsOf(Layout.stackLo, Layout.stackHi)
      \cup WordsOf(Layout.specials, Layout.specials + 16)
      \cup WordsOf(Layout.spanBase, Layout.spanBase + Layout.spanSize)

\* spanOf: the span that holds addr, if any (the model has one span).
spanOf(addr) ==
    addr >= Layout.spanBase /\ addr < Layout.spanBase + Layout.spanSize

\* findSpanAndBase: the base of the element that holds addr.
findSpanAndBase(addr) ==
    LET offset == Sub(addr, Layout.spanBase)
    IN  Add(Layout.spanBase, (offset \div Layout.elemSize) * Layout.elemSize)

\* spanInfo.elemEnd
elemEnd(base) ==
    LET end == Add(base, Layout.elemSize)
        spanEnd == Add(Layout.spanBase, Layout.spanSize)
    IN  IF end > spanEnd THEN spanEnd ELSE end

\* A faulty variant of the mark bit's update: the bit is not set.
markSetNone(vm, offset) == vm

\* A faulty variant of the mark bit's update: the word is assigned, not or-ed.
markSetAssign(vm, offset) ==
    [vm EXCEPT ![(offset \div 8) \div 64] = {(offset \div 8) % 64}]

\* visitMask[offset/8/64] |= 1 << (offset / 8 % 64)
markSet(vm, offset) ==
    [vm EXCEPT ![(offset \div 8) \div 64] = @ \cup {(offset \div 8) % 64}]

\* spanInfo.mark: whether the bit was clear, and the mask afterwards.
spanMark(vm, addr) ==
    LET offset == Sub(addr, Layout.spanBase)
    IN  IF ((offset \div 8) % 64) \in vm[(offset \div 8) \div 64]
        THEN [ok |-> FALSE, vm |-> vm]
        ELSE [ok |-> TRUE, vm |-> markSet(vm, offset)]

\* segment.mark on the segment [start, end) with visit mask sv.
segmentMark(start, end, sv, addr) ==
    IF addr >= start /\ addr < end
    THEN LET offset == Sub(addr, start)
         IN  IF ((offset \div 8) % 64) \in sv[(offset \div 8) \div 64]
             THEN [ok |-> FALSE, sv |-> sv]
             ELSE [ok |-> TRUE, sv |-> markSet(sv, offset)]
    ELSE [ok |-> FALSE, sv |-> sv]

\* segment.init: the length of the visit mask.
segmentMaskLen(start, end) ==
    ((end - start) \div 8) \div 64
        + (IF ((end - start) \div 8) % 64 # 0 THEN 1 ELSE 0)

NoVar == [nil |-> TRUE]

newReferenceVariable(addr, name, typ, hb, size, count) ==
    [Addr |-> addr, Name |-> name, typ |-> typ, hb |-> hb,
     size |-> size, count |-> count]

\* findObject(addr, typ): the variable found (NoVar for nil), the masks
\* afterwards and the calls of spanInfo.mark made.  g tells whether s.g is set.
findObject(addr, typ, vm, sv, g) ==
    IF ~spanOf(addr)
    THEN LET b == segmentMark(Layout.bssStart, Layout.bssEnd, sv.bss, addr)
             d == segmentMark(Layout.dataStart, Layout.dataEnd, sv.data, addr)
             k == segmentMark(Layout.stackLo, Layout.stackHi, sv.stack, addr)
             end == IF b.ok THEN Layout.bssEnd
                    ELSE IF d.ok THEN Layout.dataEnd
                    ELSE IF g /\ k.ok THEN Layout.stackHi ELSE 0
             sv2 == IF b.ok THEN [sv EXCEPT !.bss = b.sv]
                    ELSE IF d.ok THEN [sv EXCEPT !.data = d.sv]
                    ELSE IF g /\ k.ok THEN [sv EXCEPT !.stack = k.sv] ELSE sv
         IN  [v |-> IF ~(b.ok \/ d.ok \/ (g /\ k.ok)) THEN NoVar
                    ELSE IF Add(addr, TypeOf(typ).size) > end THEN NoVar
                    ELSE newReferenceVariable(addr, "", typ, NoHB, 0, 0),
              vm |-> vm, sv |-> sv2, marks |-> <<>>]
    ELSE LET base == findSpanAndBase(addr)
             m == spanMark(vm, base)
         IN  [v |-> IF ~m.ok THEN NoVar
                    ELSE newReferenceVariable(addr, "", typ,
                             newGCBitsIterator(base, elemEnd(base), Layout.spanBase),
                             Layout.elemSize, 1),
              vm |-> m.vm, sv |-> sv,
              marks |-> << [base |-> base, ok |-> m.ok, by |-> "findObject"] >>]

\* The entry of markObject(addr): whether it goes on to scan the object, the
\* iterator it scans with, and the visit mask afterwards.
markObjectEntry(addr, vm) ==
    IF ~spanOf(addr)
    THEN [scan |-> FALSE, hb |-> NoHB, vm |-> vm, marks |-> <<>>]
    ELSE LET base == findSpanAndBase(addr)
             m == spanMark(vm, base)
         IN  [scan |-> m.ok,
              hb |-> IF m.ok THEN newGCBitsIterator(base, elemEnd(base), Layout.spanBase)
                     ELSE NoHB,
              vm |-> m.vm,
              marks |-> << [base |-> base, ok |-> m.ok, by |-> "markObject"] >>]

\* pprofIndex.pushHead: the chain of names, root first; <<>> is the nil index.
pushHead(idx, name) == IF name = "" THEN idx ELSE Append(idx, name)

\* pprofIndex.depth of a non-nil index: 0 for a root.
depth(idx) == Len(idx) - 1

\* A faulty variant of findRef's depth check: one level more is walked.
depthReachedLate(idx, max) == idx # <<>> /\ depth(idx) > max

\* findRef's depth check: idx != nil && idx.depth >= maxRefDepth.
depthReached(idx, max) == idx # <<>> /\ depth(idx) >= max

\* profileBuilder.addReference under ObjRefScope.record: nothing is recorded
\* when size and count are both zero.
record(nd, idx, size, count) ==
    IF size = 0 /\ count = 0 THEN nd
    ELSE IF idx \in DOMAIN nd
         THEN [nd EXCEPT ![idx] = [count |-> @.count + count, size |-> @.size + size]]
         ELSE nd @@ (idx :> [count |-> count, size |-> size])

-----------------------------------------------------------------------------
\* The analyzer run: ObjectReference and what it calls.  The call stack of
\* findRef / markObject activations is explicit; one action is one step of
\* the activation on top of it.

\* A bound of the model only: the deepest call stack the model follows.
MaxStack == 26

Running == phase \notin {"idle", "done", "panic"}

top == stack[Len(stack)]

Push(stk, f) == Append(stk, f)
ReplaceTop(stk, f) == [stk EXCEPT ![Len(stk)] = f]
Pop(stk) == SubSeq(stk, 1, Len(stk) - 1)

\* An activation of findRef(x, idx) at its entry.
findRefFrame(x, idx) ==
    [fn |-> "findRef", x |-> x, idx |-> idx, pc |-> "enter", i |-> 1,
     err |-> "nil", named |-> FALSE]

\* An activation of markObject past its mark check: size, count = elemSize, 1.
markObjectFrame(hb) ==
    [fn |-> "markObject",
     x |-> newReferenceVariable(hb.base, "", "", hb, Layout.elemSize, 1),
     idx |-> <<>>, pc |-> "loop", i |-> 1, err |-> "nil", named |-> FALSE]

\* The mask an entry of finalMarks iterates over.
MaskFor(which) == IF which = "span" THEN ptrMask ELSE tgt.segMask[which]

\* A faulty variant of the order: the finalMarks are drained before the finalizers
\* are walked.
PhaseAfterSwapped(p) ==
    CASE p = "globals" -> "locals"
      [] p = "locals" -> "frames"
      [] p = "frames" -> "bss"
      [] p = "bss" -> "data"
      [] p = "data" -> "finalMark"
      [] p = "finalMark" -> "finalizers"
      [] p = "finalizers" -> "flush"
      [] OTHER -> "done"

\* The order of the loops of ObjectReference.
PhaseAfter(p) ==
    CASE p = "globals" -> "locals"
      [] p = "locals" -> "frames"
      [] p = "frames" -> "bss"
      [] p = "bss" -> "data"
      [] p = "data" -> "finalizers"
      [] p = "finalizers" -> "finalMark"
      [] p = "finalMark" -> "flush"
      [] OTHER -> "done"

\* The number of iterations of the loop of a phase.
PhaseLen(p) ==
    CASE p = "globals" -> Len(tgt.globals)
      [] p = "locals" -> Len(tgt.locals)
      [] p = "frames" -> Len(tgt.frames)
      [] p = "bss" -> 1
      [] p = "data" -> 1
      [] p = "finalizers" -> 2 * Len(tgt.finalizers)
      [] p = "finalMark" -> Len(finalMarks)
      [] OTHER -> 0

\* The caller's frame after a callee findRef(y, idx) returned err: a pointer
\* case adds y.size and y.count to x and returns; the struct loop breaks on
\* errOutOfRange and goes to the next field otherwise.
ResumeCaller(caller, y, err) ==
    IF caller.pc = "afterField"
    THEN [caller EXCEPT !.err = err,
                        !.i = @ + 1,
                        !.pc = IF err = "OutOfRange" THEN "ret" ELSE "body"]
    ELSE [caller EXCEPT !.x.size = @ + y.size,
                        !.x.count = @ + y.count,
                        !.pc = "ret"]

\* The stack after the activation on top returned.
ReturnTo(stk, y, err) ==
    IF Len(stk) = 1 THEN <<>>
    ELSE Append(SubSeq(stk, 1, Len(stk) - 2), ResumeCaller(stk[Len(stk) - 1], y, err))

Hist0 == [reads |-> 0, marks |-> <<>>, calls |-> 0, roots |-> 0,
          refusals |-> 0, fmSteps |-> 0]

\* History only: whether an activation on the object at base is on the stack.
OnStack(base) ==
    \E i \in DOMAIN stack : stack[i].x.hb # NoHB /\ stack[i].x.hb.base = base

\* History only: the calls of spanInfo.mark, each with whether the object was
\* being walked by an activation on the stack when the call was made.
Logged(ms) ==
    [i \in DOMAIN ms |->
        [base |-> ms[i].base, ok |-> ms[i].ok, by |-> ms[i].by,
         open |-> OnStack(ms[i].base)]]

\* A loop of ObjectReference is over: the next one starts.
NextPhase ==
    /\ Running
    /\ stack = <<>>
    /\ phase # "flush"
    /\ (IF phase = "finalMark" THEN fmIdx ELSE rootIdx) > PhaseLen(phase)
    /\ phase' = PhaseAfter(phase)
    /\ rootIdx' = 1
    /\ fmIdx' = 1
    /\ UNCHANGED <<tgt, maxRefDepth, stack, finalMarks, fmAcc, nodes, visitMask,
                   ptrMask, segVisit, hist, bitVars, mapVars, pbVars, mcVars, orVars, fnVars>>

\* s.findRef(newReferenceVariable(pv.Addr, pv.Name, pv.RealType, mem, nil), nil)
\* for the next package variable, and the same for the next local variable.
RootVariable ==
    /\ phase \in {"globals", "locals"}
    /\ stack = <<>>
    /\ rootIdx <= PhaseLen(phase)
    /\ LET r == IF phase = "globals" THEN tgt.globals[rootIdx] ELSE tgt.locals[rootIdx]
       IN  /\ stack' = IF r.Addr = 0 THEN stack
                       ELSE <<findRefFrame(
                                newReferenceVariable(r.Addr, r.Name, r.typ, NoHB, 0, 0), <<>>)>>
           /\ hist' = IF r.Addr = 0 THEN hist
                      ELSE [hist EXCEPT !.calls = @ + 1, !.roots = @ + 1]
    /\ rootIdx' = rootIdx + 1
    /\ UNCHANGED <<tgt, maxRefDepth, phase, finalMarks, fmIdx, fmAcc, nodes,
                   visitMask, ptrMask, segVisit, bitVars, mapVars, pbVars, mcVars, orVars, fnVars>>

\* The residue of a root bitmap: a frame of the goroutine, the bss segment or
\* the data segment is added to the finalMarks when its iterator still has a
\* pointer.
RootResidue ==
    /\ phase \in {"frames", "bss", "data"}
    /\ stack = <<>>
    /\ rootIdx <= PhaseLen(phase)
    /\ LET r == IF phase = "frames" THEN tgt.frames[rootIdx] ELSE tgt.segs[phase]
       IN  finalMarks' =
               IF nextPtr(r.hb, tgt.segMask[r.mask], FALSE).addr # 0
               THEN Append(finalMarks,
                           [idx |-> pushHead(<<>>, r.name), hb |-> r.hb, mask |-> r.mask])
               ELSE finalMarks
    /\ rootIdx' = rootIdx + 1
    /\ UNCHANGED <<tgt, maxRefDepth, phase, stack, fmIdx, fmAcc, nodes, visitMask,
                   ptrMask, segVisit, hist, bitVars, mapVars, pbVars, mcVars, orVars, fnVars>>

\* The two findRef calls of a finalizer: the finalized object, then the
\* finalizer function.
RootFinalizer ==
    /\ phase = "finalizers"
    /\ stack = <<>>
    /\ rootIdx <= PhaseLen(phase)
    /\ LET fin == tgt.finalizers[(rootIdx + 1) \div 2]
           x == IF rootIdx % 2 = 1
                THEN newReferenceVariable(fin.p, "finalized", "finalizePtrType", NoHB, 0, 0)
                ELSE newReferenceVariable(fin.fn, "finalizer", "func", NoHB, 0, 0)
       IN  stack' = <<findRefFrame(x, <<>>)>>
    /\ hist' = [hist EXCEPT !.calls = @ + 1, !.roots = @ + 1]
    /\ rootIdx' = rootIdx + 1
    /\ UNCHANGED <<tgt, maxRefDepth, phase, finalMarks, fmIdx, fmAcc, nodes,
                   visitMask, ptrMask, segVisit, bitVars, mapVars, pbVars, mcVars, orVars, fnVars>>

\* findRef on a named variable whose incoming chain has reached maxRefDepth:
\* it returns at once.
FindRefRefuse ==
    /\ Running
    /\ stack # <<>>
    /\ top.fn = "findRef" /\ top.pc = "enter"
    /\ top.x.Name # ""
    /\ depthReached(top.idx, maxRefDepth)
    /\ stack' = ReturnTo(stack, top.x, "nil")
    /\ hist' = [hist EXCEPT !.refusals = @ + 1]
    /\ UNCHANGED <<tgt, maxRefDepth, phase, rootIdx, finalMarks, fmIdx, fmAcc, nodes,
                   visitMask, ptrMask, segVisit, bitVars, mapVars, pbVars, mcVars, orVars, fnVars>>

\* The entry of findRef otherwise: a named variable pushes its name on the
\* chain and defers its record; an unnamed one defers the check of its
\* iterator.
FindRefEnter ==
    /\ Running
    /\ stack # <<>>
    /\ top.fn = "findRef" /\ top.pc = "enter"
    /\ ~(top.x.Name # "" /\ depthReached(top.idx, maxRefDepth))
    /\ stack' = ReplaceTop(stack,
                    [top EXCEPT !.idx = pushHead(top.idx, top.x.Name),
                                !.named = (top.x.Name # ""),
                                !.pc = "body"])
    /\ UNCHANGED <<tgt, maxRefDepth, phase, rootIdx, finalMarks, fmIdx, fmAcc, nodes,
                   visitMask, ptrMask, segVisit, hist, bitVars, mapVars, pbVars, mcVars, orVars, fnVars>>

\* The stack, the masks and the history after the body of a pointer-like case
\* found the object at addr of type typ (or found none).
FoundObject(addr, typ, mask, reads) ==
    LET o == findObject(addr, typ, visitMask, segVisit, phase = "locals")
    IN  /\ stack' = IF o.v = NoVar
                    THEN ReplaceTop(stack, [top EXCEPT !.pc = "ret"])
                    ELSE Push(ReplaceTop(stack, [top EXCEPT !.pc = "afterCall"]),
                              findRefFrame(o.v, top.idx))
        /\ visitMask' = o.vm
        /\ segVisit' = o.sv
        /\ ptrMask' = mask
        /\ hist' = [hist EXCEPT !.reads = @ + reads,
                                !.marks = @ \o Logged(o.marks),
                                !.calls = @ + (IF o.v = NoVar THEN 0 ELSE 1)]
        /\ UNCHANGED phase

\* The body returns err without a call (err may be "nil").
BodyReturns(err, mask, reads) ==
    /\ stack' = ReplaceTop(stack, [top EXCEPT !.pc = "ret", !.err = err])
    /\ ptrMask' = mask
    /\ hist' = [hist EXCEPT !.reads = @ + reads]
    /\ UNCHANGED <<phase, visitMask, segVisit>>

\* A Go run-time panic ends the run.
Panics ==
    /\ phase' = "panic"
    /\ UNCHANGED <<stack, ptrMask, visitMask, segVisit, hist>>

\* case *godwarf.PtrType: readPointer, findObject, findRef on the object.
FindRefPtr ==
    /\ Running
    /\ stack # <<>> /\ Len(stack) < MaxStack
    /\ top.fn = "findRef" /\ top.pc = "body"
    /\ TypeOf(top.x.typ).kind = "Ptr"
    /\ LET r == readPointer(top.x.hb, ptrMask, tgt.mem, top.x.Addr)
       IN  IF r.err = "panic" THEN Panics
           ELSE IF r.err # "nil" THEN BodyReturns(r.err, r.mask, r.reads)
           ELSE FoundObject(r.val, TypeOf(top.x.typ).elem, r.mask, r.reads)
    /\ UNCHANGED <<tgt, maxRefDepth, rootIdx, finalMarks, fmIdx, fmAcc, nodes,
                   bitVars, mapVars, pbVars, mcVars, orVars, fnVars>>

\* case *godwarf.StructType: findRef on the next field, or the end of the loop.
FindRefStruct ==
    /\ Running
    /\ stack # <<>> /\ Len(stack) < MaxStack
    /\ top.fn = "findRef" /\ top.pc = "body"
    /\ TypeOf(top.x.typ).kind = "Struct"
    /\ LET fields == TypeOf(top.x.typ).fields
       IN  IF top.i > Len(fields)
           THEN /\ stack' = ReplaceTop(stack, [top EXCEPT !.pc = "ret"])
                /\ hist' = hist
           ELSE LET field == fields[top.i]
                    y == newReferenceVariable(Add(top.x.Addr, field.off), field.name,
                                              field.typ, top.x.hb, 0, 0)
                IN  /\ stack' = Push(ReplaceTop(stack, [top EXCEPT !.pc = "afterField"]),
                                     findRefFrame(y, top.idx))
                    /\ hist' = [hist EXCEPT !.calls = @ + 1]
    /\ UNCHANGED <<tgt, maxRefDepth, phase, rootIdx, finalMarks, fmIdx, fmAcc, nodes,
                   visitMask, ptrMask, segVisit, bitVars, mapVars, pbVars, mcVars, orVars, fnVars>>

\* case *finalizePtrType: findObject(x.Addr, void), findRef on the object.
FindRefFinalizePtr ==
    /\ Running
    /\ stack # <<>> /\ Len(stack) < MaxStack
    /\ top.fn = "findRef" /\ top.pc = "body"
    /\ TypeOf(top.x.typ).kind = "FinalizePtr"
    /\ FoundObject(top.x.Addr, "void", ptrMask, 0)
    /\ UNCHANGED <<tgt, maxRefDepth, rootIdx, finalMarks, fmIdx, fmAcc, nodes,
                   bitVars, mapVars, pbVars, mcVars, orVars, fnVars>>

\* case *godwarf.FuncType: the closure address is read, then the function
\* address behind it (no closure struct type is known: void), findObject.
FindRefFunc ==
    /\ Running
    /\ stack # <<>> /\ Len(stack) < MaxStack
    /\ top.fn = "findRef" /\ top.pc = "body"
    /\ TypeOf(top.x.typ).kind = "Func"
    /\ LET r == readPointer(top.x.hb, ptrMask, tgt.mem, top.x.Addr)
       IN  IF r.err = "panic" THEN Panics
           ELSE IF r.err # "nil" \/ r.val = 0 THEN BodyReturns(r.err, r.mask, r.reads)
           ELSE FoundObject(r.val, "void", r.mask, r.reads + 1)
    /\ UNCHANGED <<tgt, maxRefDepth, rootIdx, finalMarks, fmIdx, fmAcc, nodes,
                   bitVars, mapVars, pbVars, mcVars, orVars, fnVars>>

\* default: nothing to walk.
FindRefDefault ==
    /\ Running
    /\ stack # <<>>
    /\ top.fn = "findRef" /\ top.pc = "body"
    /\ TypeOf(top.x.typ).kind = "Other"
    /\ stack' = ReplaceTop(stack, [top EXCEPT !.pc = "ret"])
    /\ UNCHANGED <<tgt, maxRefDepth, phase, rootIdx, finalMarks, fmIdx, fmAcc, nodes,
                   visitMask, ptrMask, segVisit, hist, bitVars, mapVars, pbVars, mcVars, orVars, fnVars>>

\* The return of findRef: the deferred function runs (a named variable is
\* recorded; an unnamed one whose iterator still has a pointer is added to
\* the finalMarks), then the caller goes on.
FindRefReturn ==
    /\ Running
    /\ stack # <<>>
    /\ top.fn = "findRef" /\ top.pc = "ret"
    /\ nodes' = IF top.named THEN record(nodes, top.idx, top.x.size, top.x.count)
                ELSE nodes
    /\ finalMarks' =
           IF ~top.named /\ nextPtr(top.x.hb, ptrMask, FALSE).addr # 0
           THEN Append(finalMarks, [idx |-> top.idx, hb |-> top.x.hb, mask |-> "span"])
           ELSE finalMarks
    /\ stack' = ReturnTo(stack, top.x, top.err)
    /\ UNCHANGED <<tgt, maxRefDepth, phase, rootIdx, fmIdx, fmAcc, visitMask,
                   ptrMask, segVisit, hist, bitVars, mapVars, pbVars, mcVars, orVars, fnVars>>

\* The call markObject(addr) made by the loop of finalMark or of markObject
\* after it read addr: an object marked for the first time gets an activation
\* that scans it; anything else returns 0, 0 at once.
CallMarkObject(stk, addr) ==
    LET e == markObjectEntry(addr, visitMask)
    IN  /\ stack' = IF e.scan THEN Push(stk, markObjectFrame(e.hb)) ELSE stk
        /\ visitMask' = e.vm
        /\ hist' = [hist EXCEPT !.reads = @ + 1,
                                !.marks = @ \o Logged(e.marks),
                                !.fmSteps = @ + 1]

\* One pass of the loop of finalMark on the current entry of finalMarks:
\* the next pointer of the iterator is read and markObject is called on it.
FinalMarkNext ==
    /\ phase = "finalMark"
    /\ stack = <<>>
    /\ fmIdx <= Len(finalMarks)
    /\ LET e == finalMarks[fmIdx]
           r == nextPtr(e.hb, MaskFor(e.mask), TRUE)
           v == readUintRaw(tgt.mem, r.addr)
       IN  /\ r.addr # 0
           /\ finalMarks' = [finalMarks EXCEPT ![fmIdx].hb = r.hb]
           /\ IF v.err # "nil"
              THEN /\ hist' = [hist EXCEPT !.reads = @ + 1, !.fmSteps = @ + 1]
                   /\ UNCHANGED <<stack, visitMask>>
              ELSE CallMarkObject(stack, v.val)
    /\ UNCHANGED <<tgt, maxRefDepth, phase, rootIdx, fmIdx, fmAcc, nodes, ptrMask,
                   segVisit, bitVars, mapVars, pbVars, mcVars, orVars, fnVars>>

\* The end of finalMark: the iterator has no pointer left, the sizes found
\* are recorded under the entry's index, and the next entry is taken.
FinalMarkRecord ==
    /\ phase = "finalMark"
    /\ stack = <<>>
    /\ fmIdx <= Len(finalMarks)
    /\ LET e == finalMarks[fmIdx]
       IN  /\ nextPtr(e.hb, MaskFor(e.mask), TRUE).addr = 0
           /\ nodes' = record(nodes, e.idx, fmAcc.size, fmAcc.count)
    /\ fmAcc' = [size |-> 0, count |-> 0]
    /\ fmIdx' = fmIdx + 1
    /\ hist' = [hist EXCEPT !.fmSteps = @ + 1]
    /\ UNCHANGED <<tgt, maxRefDepth, phase, rootIdx, stack, finalMarks, visitMask,
                   ptrMask, segVisit, bitVars, mapVars, pbVars, mcVars, orVars, fnVars>>

\* One pass of the loop of markObject: the next pointer of the object is
\* read and markObject is called on it.
MarkObjectNext ==
    /\ Running
    /\ stack # <<>> /\ Len(stack) < MaxStack
    /\ top.fn = "markObject"
    /\ LET r == nextPtr(top.x.hb, ptrMask, TRUE)
           v == readUintRaw(tgt.mem, r.addr)
           stk == ReplaceTop(stack, [top EXCEPT !.x.hb = r.hb])
       IN  /\ r.addr # 0
           /\ IF v.err # "nil"
              THEN /\ stack' = stk
                   /\ hist' = [hist EXCEPT !.reads = @ + 1, !.fmSteps = @ + 1]
                   /\ UNCHANGED visitMask
              ELSE CallMarkObject(stk, v.val)
    /\ UNCHANGED <<tgt, maxRefDepth, phase, rootIdx, finalMarks, fmIdx, fmAcc, nodes,
                   ptrMask, segVisit, bitVars, mapVars, pbVars, mcVars, orVars, fnVars>>

\* The return of markObject: its size and count are added to its caller's.
MarkObjectReturn ==
    /\ Running
    /\ stack # <<>>
    /\ top.fn = "markObject"
    /\ nextPtr(top.x.hb, ptrMask, TRUE).addr = 0
    /\ IF Len(stack) = 1
       THEN /\ fmAcc' = [size |-> fmAcc.size + top.x.size,
                         count |-> fmAcc.count + top.x.count]
            /\ stack' = <<>>
       ELSE /\ fmAcc' = fmAcc
            /\ stack' = Append(SubSeq(stack, 1, Len(stack) - 2),
                               [stack[Len(stack) - 1] EXCEPT
                                   !.x.size = @ + top.x.size,
                                   !.x.count = @ + top.x.count])
    /\ hist' = [hist EXCEPT !.fmSteps = @ + 1]
    /\ UNCHANGED <<tgt, maxRefDepth, phase, rootIdx, finalMarks, fmIdx, nodes,
                   visitMask, ptrMask, segVisit, bitVars, mapVars, pbVars, mcVars, orVars, fnVars>>

\* s.pb.flush(): the nodes are written out as the samples of the profile.
Flush ==
    /\ phase = "flush"
    /\ stack = <<>>
    /\ phase' = "done"
    /\ UNCHANGED <<tgt, maxRefDepth, rootIdx, stack, finalMarks, fmIdx, fmAcc, nodes,
                   visitMask, ptrMask, segVisit, hist, bitVars, mapVars, pbVars, mcVars, orVars, fnVars>>

Next ==
    \/ NextPhase
    \/ RootVariable
    \/ RootResidue
    \/ RootFinalizer
    \/ FindRefRefuse
    \/ FindRefEnter
    \/ FindRefPtr
    \/ FindRefStruct
    \/ FindRefFinalizePtr
    \/ FindRefFunc
    \/ FindRefDefault
    \/ FindRefReturn
    \/ FinalMarkNext
    \/ FinalMarkRecord
    \/ MarkObjectNext
    \/ MarkObjectReturn
    \/ Flush

\* ---- the targets the run is checked on ----

\* Bounds of the model only.
MaxPtrs == 2
MaxRefDepths == {1, 8}

\* The root bitmaps: the pointer words of the data segment (the globals G0
\* and G1), none in the bss segment, and the frame's slot of the local L0.
SegMask ==
    [data |-> [w \in 0..0 |-> {0, 1}],
     bss |-> [w \in 0..0 |-> {}],
     frame |-> [w \in 0..0 |-> {0}]]

Segs ==
    [bss |-> [name |-> "bss segment[0]", mask |-> "bss",
              hb |-> newGCBitsIterator(Layout.bssStart, Layout.bssEnd, Layout.bssStart)],
     data |-> [name |-> "data segment[0]", mask |-> "data",
               hb |-> newGCBitsIterator(Layout.dataStart, Layout.dataEnd, Layout.dataStart)]]

Frames ==
    << [name |-> "main.run", mask |-> "frame",
        hb |-> newGCBitsIterator(Layout.stackLo, Layout.stackHi, Layout.stackLo)] >>

G0Addr == Layout.dataStart
G1Addr == Add(Layout.dataStart, 8)
FuncvalAddr == Add(Layout.dataStart, 16)
L0Addr == Layout.stackLo
FinFnAddr == Layout.specials

\* A target: the heap words hv (a function on some words of the span), the
\* objects objs of the span, the values of the roots and the finalizers.
Target(hv, objs, g0, g1, l0, fins, closure) ==
    [objs |-> objs,
     mem |-> [a \in MappedWords |->
                 IF a \in DOMAIN hv THEN hv[a]
                 ELSE IF a = G0Addr THEN g0
                 ELSE IF a = G1Addr THEN g1
                 ELSE IF a = L0Addr THEN l0
                 ELSE IF a = FuncvalAddr THEN 1
                 ELSE IF a = FinFnAddr THEN closure
                 ELSE 0],
     globals |-> << [Addr |-> G0Addr, Name |-> "main.G0", typ |-> "*Node"],
                    [Addr |-> G1Addr, Name |-> "main.G1", typ |-> "*byte"] >>,
     locals |-> << [Addr |-> L0Addr, Name |-> "main.run.L0", typ |-> "*Node"] >>,
     frames |-> Frames,
     segs |-> Segs,
     segMask |-> SegMask,
     finalizers |-> fins]

\* The start of ObjectReference on a target, after readHeap: every word of
\* the objects of objs is a pointer word in the span's ptrMask.
RunInit(t, max) ==
    /\ tgt = t
    /\ maxRefDepth = max
    /\ phase = "globals"
    /\ rootIdx = 1
    /\ stack = <<>>
    /\ finalMarks = <<>>
    /\ fmIdx = 1
    /\ fmAcc = [size |-> 0, count |-> 0]
    /\ nodes = <<>>
    /\ visitMask = EmptyMask(SpanMaskLen)
    /\ ptrMask = MaskOf({Sub(o, Layout.spanBase) + d : o \in t.objs, d \in {0, 8}}, SpanMaskLen)
    /\ segVisit = [bss |-> EmptyMask(segmentMaskLen(Layout.bssStart, Layout.bssEnd)),
                   data |-> EmptyMask(segmentMaskLen(Layout.dataStart, Layout.dataEnd)),
                   stack |-> EmptyMask(segmentMaskLen(Layout.stackLo, Layout.stackHi))]
    /\ hist = Hist0

\* The values of the GC roots of a target: the pointer words of the root
\* bitmaps, the finalized objects and the finalizers' closures.
RootValues(t) ==
    UNION {{t.mem[Add(t.segs[g].hb.maskBase, 8 * b)] : b \in t.segMask[g][0]} :
              g \in DOMAIN t.segs}
      \cup UNION {{t.mem[Add(t.frames[i].hb.maskBase, 8 * b)] : b \in t.segMask["frame"][0]} :
                    i \in DOMAIN t.frames}
      \cup {t.finalizers[i].p : i \in DOMAIN t.finalizers}
      \cup {t.mem[t.finalizers[i].fn] : i \in DOMAIN t.finalizers}

\* The bases of the heap objects that the values of V point into.
BasesOf(V) == {findSpanAndBase(v) : v \in {x \in V : spanOf(x)}}

\* The heap objects reachable from the objects of S through pointer words.
RECURSIVE ReachFrom(_, _)
ReachFrom(t, S) ==
    LET N == S \cup BasesOf({t.mem[Add(b, d)] : b \in S \cap t.objs, d \in {0, 8}})
    IN  IF N = S THEN S ELSE ReachFrom(t, N)

Reachable(t) == ReachFrom(t, BasesOf(RootValues(t)))

\* The heap words of the model: a next word and a raw word in each of the
\* three objects.  At most n of them hold a pointer.
NextWords == {ObjA, ObjB, ObjC}
RawWords == {Add(ObjA, 8), Add(ObjB, 8), Add(ObjC, 8)}
HeapValues(n) ==
    {hv \in [NextWords \cup RawWords -> {0, ObjA, ObjB, ObjC, Add(ObjB, 8)}] :
        /\ \A a \in NextWords : hv[a] \in {0, ObjA, ObjB, ObjC}
        /\ \A a \in RawWords : hv[a] \in {0, ObjC, Add(ObjB, 8)}
        /\ Cardinality({a \in DOMAIN hv : hv[a] # 0}) <= n}

\* The finalizers of the span: none, or one on ObjB whose function is a
\* static funcval or a closure on the heap.
FinalizerChoices ==
    { [fins |-> <<>>, closure |-> 0],
      [fins |-> << [p |-> ObjB, fn |-> FinFnAddr] >>, closure |-> FuncvalAddr],
      [fins |-> << [p |-> ObjB, fn |-> FinFnAddr] >>, closure |-> ObjC] }

Init ==
    /\ BitsIdle
    /\ MapIdle
    /\ PbIdle
    /\ McIdle
    /\ OrIdle
    /\ FnIdle
    /\ \E hv \in HeapValues(MaxPtrs), g0 \in {ObjA, ObjB}, g1 \in {0, ObjC}, l0 \in {0, ObjB},
          f \in FinalizerChoices, max \in MaxRefDepths :
          RunInit(Target(hv, {ObjA, ObjB, ObjC}, g0, g1, l0, f.fins, f.closure), max)

Spec == Init /\ [][Next]_vars

\* Whether a heap object of the target lies on a cycle of pointer words.
HasCycle(t) ==
    \E b \in t.objs :
        b \in ReachFrom(t, BasesOf({t.mem[Add(b, d)] : d \in {0, 8}}))

\* The runs on targets in which every object's next word points to an object,
\* so that every walk that enters the heap enters a cycle: G0 points to ObjB,
\* G1 (a *byte) to ObjC, ObjC to ObjA, and ObjA to itself or back to ObjC.
\* The finalizer with a static function comes with the smallest maxRefDepth.
\* Every step of the run is a step of the one analyzer thread, which runs
\* until the run ends.
CycleInit ==
    /\ BitsIdle
    /\ MapIdle
    /\ PbIdle
    /\ McIdle
    /\ OrIdle
    /\ FnIdle
    /\ \E a \in {ObjA, ObjC}, b \in NextWords, f \in FinalizerChoices, max \in MaxRefDepths :
          LET hv == [w \in NextWords \cup RawWords |->
                        IF w = ObjA THEN a
                        ELSE IF w = ObjB THEN b
                        ELSE IF w = ObjC THEN ObjA ELSE 0]
          IN  /\ (f.closure = FuncvalAddr) = (max = 1)
              /\ RunInit(Target(hv, {ObjA, ObjB, ObjC}, ObjB, ObjC, 0, f.fins, f.closure), max)

CycleSpec == CycleInit /\ [][Next]_vars /\ WF_vars(Next)

\* ---- a singly linked list walked with a small maxRefDepth ----

\* Bounds of the model only: the longest list, and the depth bound it is
\* walked with.
MaxList == 13
ListMaxRefDepth == 10

\* The element of the span the first node of the list lies in: the list lies
\* in the first word of the span's masks, crosses into the last, or lies in
\* the last.
ListStarts == {0, 8, 24, 40}

\* The k-th node of a list that starts in element s.
ListNode(s, k) == Add(Layout.spanBase, Layout.elemSize * (s + k - 1))

\* The list of n nodes from element s on: each node's next word points to the
\* following node, the last one's is nil; the global G0 points to the first.
ListTarget(s, n) ==
    LET objs == {ListNode(s, k) : k \in 1..n}
        hv == [a \in objs |-> IF a = ListNode(s, n) THEN 0 ELSE Add(a, Layout.elemSize)]
    IN  Target(hv, objs, ListNode(s, 1), 0, 0, <<>>, 0)

ListInit ==
    /\ BitsIdle
    /\ MapIdle
    /\ PbIdle
    /\ McIdle
    /\ OrIdle
    /\ FnIdle
    /\ \E s \in ListStarts, n \in 1..MaxList :
          RunInit(ListTarget(s, n), ListMaxRefDepth)

ListNext ==
    \/ NextPhase
    \/ RootVariable
    \/ RootResidue
    \/ FindRefRefuse
    \/ FindRefEnter
    \/ FindRefPtr
    \/ FindRefStruct
    \/ FindRefReturn
    \/ FinalMarkNext
    \/ FinalMarkRecord
    \/ MarkObjectNext
    \/ MarkObjectReturn
    \/ Flush

ListSpec == ListInit /\ [][ListNext]_vars

-----------------------------------------------------------------------------
\* The classic map iterator (mapiter.go) on one hmap of the target.  A bucket
\* is a record [tophash, overflow]: tophash is the array of its cells' tophash
\* bytes, overflow the number of its overflow bucket in hm.ovf (0 for nil).
\* A bucket is referred to by [kind, i]: the i-th bucket (from 0) of
\* hm.buckets ("new") or hm.oldbuckets ("old"), or the i-th overflow bucket.
\* The bucket arrays and the overflow buckets lie in the first mask word of
\* their spans; the hmap lies at hm.hmapBase.  Bucket i of an array lies at
\* the array's address plus i bucket sizes, so that a bucket number past the
\* end of hm.buckets is the memory that follows the array, hm.beyond.

\* Bounds of the model only: cells per bucket (the runtime has 8), and the
\* largest B.
BucketCnt == 2
MaxB == 2

hashTophashEmptyZero == 0
hashTophashEmptyOne == 1
hashMinTopHash == 5

NoRef == [nil |-> TRUE]

Pow2(n) == 2 ^ n

\* The hmap's fields "buckets" and "oldbuckets": byte offsets in the hmap.
HmapFieldOff == [buckets |-> 8, oldbuckets |-> 16, size |-> 32]

BucketOf(m, ref) ==
    IF ref.kind = "new"
    THEN (IF ref.i + 1 \in DOMAIN m.buckets THEN m.buckets[ref.i + 1] ELSE m.beyond)
    ELSE IF ref.kind = "old" THEN m.oldbuckets[ref.i + 1]
    ELSE m.ovf[ref.i]

\* it.bidx & it.oldmask, where oldmask = (1 << (b - 1)) - 1 on uint64: for
\* b = 0 the shift count wraps to 2^64 - 1, the shift gives 0 and the mask is
\* all ones.
andOldmask(bidx, b) == IF b = 0 THEN bidx ELSE bidx % Pow2(b - 1)

\* mapEvacuated: the first tophash byte of the bucket is an evacuation mark.
mapEvacuated(m, ref) ==
    LET tophash0 == BucketOf(m, ref).tophash[1]
    IN  tophash0 > hashTophashEmptyOne /\ tophash0 < hashMinTopHash

\* The loop of nextBucket over it.bidx: the bucket to go through (NoRef for
\* none) and the bidx it is found at.
RECURSIVE bucketLoop(_, _, _)
bucketLoop(m, itr, bidx) ==
    IF ~(bidx < itr.numbuckets) THEN [b |-> NoRef, bidx |-> bidx]
    ELSE IF ~itr.hasBuckets THEN [b |-> NoRef, bidx |-> bidx]
    ELSE IF ~itr.hasOld THEN [b |-> [kind |-> "new", i |-> bidx], bidx |-> bidx]
    ELSE LET oldbidx == andOldmask(bidx, itr.B)
             oldb == [kind |-> "old", i |-> oldbidx]
         IN  IF mapEvacuated(m, oldb) THEN [b |-> [kind |-> "new", i |-> bidx], bidx |-> bidx]
             ELSE IF oldbidx = bidx THEN [b |-> oldb, bidx |-> bidx]
             ELSE bucketLoop(m, itr, bidx + 1)

\* nextBucket: whether there is a next bucket, and the iterator afterwards.
nextBucket(m, itr) ==
    LET r == IF itr.overflow # NoRef
             THEN [b |-> itr.overflow, bidx |-> itr.bidx, ok |-> TRUE]
             ELSE LET l == bucketLoop(m, itr, itr.bidx)
                  IN  [b |-> l.b,
                       bidx |-> IF l.b = NoRef THEN l.bidx ELSE l.bidx + 1,
                       ok |-> l.b # NoRef]
    IN  IF ~r.ok THEN [ok |-> FALSE, it |-> [itr EXCEPT !.b = NoRef, !.bidx = r.bidx]]
        ELSE LET o == BucketOf(m, r.b).overflow
             IN  [ok |-> TRUE,
                  it |-> [itr EXCEPT !.b = r.b, !.bidx = r.bidx,
                                     !.overflow = IF o = 0 THEN NoRef
                                                  ELSE [kind |-> "ovf", i |-> o]]]

\* next, before the tophash byte is read: if it.b == nil or it.idx >= bucketCnt,
\* nextBucket is called and it.idx is set to 0 (n is what nextBucket returned).
nextAfterBucket(n) == [ok |-> n.ok, it |-> [n.it EXCEPT !.idx = IF n.ok THEN 0 ELSE @]]

nextAdvance(m, itr) ==
    IF itr.b = NoRef \/ itr.idx >= BucketCnt
    THEN nextAfterBucket(nextBucket(m, itr))
    ELSE [ok |-> TRUE, it |-> itr]

\* The loop of next, read being the cells whose tophash byte was read so far
\* with readUintRaw(tophash.mem, tophash.Addr, 1): nextCell is the loop body
\* from the read of the tophash byte h of cell it.idx of it.b on.
RECURSIVE nextLoop(_, _, _)
nextTophash(m, itr, h, read) ==
    IF h # hashTophashEmptyZero /\ h # hashTophashEmptyOne
    THEN [ok |-> TRUE, it |-> [itr EXCEPT !.idx = @ + 1], read |-> read]
    ELSE nextLoop(m, [itr EXCEPT !.idx = @ + 1], read)

nextCell(m, r, read) ==
    IF ~r.ok THEN [ok |-> FALSE, it |-> r.it, read |-> read]
    ELSE nextTophash(m, r.it, BucketOf(m, r.it.b).tophash[r.it.idx + 1],
                     Append(read, [b |-> r.it.b, idx |-> r.it.idx]))

nextLoop(m, itr, read) == nextCell(m, nextAdvance(m, itr), read)

\* next: whether a cell was found (it is cell it.idx - 1 of it.b), the
\* iterator afterwards, and the cells whose tophash byte was read.
next(m, itr) == nextLoop(m, itr, <<>>)

\* The hb of the hmap found by findObject, and the memory of its two pointer
\* fields.
HmapHb(m) == newGCBitsIterator(m.hmapBase, Add(m.hmapBase, HmapFieldOff.size), Layout.spanBase)

HmapMem(m) ==
    (Add(m.hmapBase, HmapFieldOff.buckets) :> 1)
      @@ (Add(m.hmapBase, HmapFieldOff.oldbuckets) :> (IF m.oldbuckets = <<>> THEN 0 ELSE 1))

HmapMask(m) ==
    MaskOf({Sub(a, Layout.spanBase) : a \in DOMAIN HmapMem(m)}, SpanMaskLen)

\* toMapIterator: B is read, the fields buckets and oldbuckets are
\* dereferenced (readPointer on the hmap's iterator, then findObject).
toMapIterator(m) ==
    LET bk == readPointer(HmapHb(m), HmapMask(m), HmapMem(m),
                          Add(m.hmapBase, HmapFieldOff.buckets))
        ob == IF bk.err = "panic" THEN bk
              ELSE readPointer(HmapHb(m), bk.mask, HmapMem(m),
                               Add(m.hmapBase, HmapFieldOff.oldbuckets))
    IN  [state |-> IF ob.err = "panic" THEN "panic" ELSE "iterating",
         B |-> m.B,
         numbuckets |-> Pow2(m.B),
         hasBuckets |-> bk.err = "nil" /\ bk.val # 0,
         hasOld |-> ob.err = "nil" /\ ob.val # 0,
         b |-> NoRef, bidx |-> 0, idx |-> 0, overflow |-> NoRef]

\* ---- the maps the iterator is checked on ----

EmptyCells == [i \in 1..BucketCnt |-> hashTophashEmptyZero]

\* The tophash arrays of a bucket of a map that is not being evacuated: the
\* first k cells hold an entry and the rest are empty, or the first cell was
\* deleted (emptyOne) and the others hold an entry.
Contents ==
    {[i \in 1..BucketCnt |-> IF i <= k THEN hashMinTopHash ELSE hashTophashEmptyZero] :
        k \in 0..BucketCnt}
      \cup {[i \in 1..BucketCnt |-> IF i = 1 THEN hashTophashEmptyOne ELSE hashMinTopHash]}

\* The tophash array of an evacuated old bucket whose cells were c:
\* evacuatedX (2) for an entry, evacuatedEmpty (4) for an empty cell.
EvacuatedCells(c) == [i \in 1..BucketCnt |-> IF c[i] >= hashMinTopHash THEN 2 ELSE 4]

\* What became of a bucket: for a map that is not growing, x is the content
\* of the bucket; for a growing map, an old bucket that is not evacuated
\* still holds x, and an evacuated one has moved x to its first new bucket and
\* y to its second (a same-size grow has no second).  A map stopped inside
\* hashGrow after h.B += 1 and before h.buckets = newbuckets ("commit") has
\* its old array of 2^(B-1) buckets as buckets and no oldbuckets yet.
Choices(mode) ==
    {c \in [evac : BOOLEAN, x : Contents, y : Contents] :
        /\ (mode \in {"none", "commit"} => ~c.evac)
        /\ (~c.evac \/ mode = "same" => c.y = EmptyCells)}

\* The hmap with 2^B buckets built from the choices ch; withOvf adds an
\* overflow bucket with one entry to the first bucket that holds entries;
\* beyond is the tophash array found in the memory that follows the buckets.
MapOf(B, mode, ch, withOvf, base, beyond) ==
    LET oldN == IF mode = "double" THEN Pow2(B - 1)
                ELSE IF mode = "same" THEN Pow2(B) ELSE 0
        newN == IF mode = "commit" THEN Pow2(B - 1) ELSE Pow2(B)
        ovfOnOld == withOvf /\ mode # "none" /\ ~ch[0].evac
        ovfOnNew == withOvf /\ ~ovfOnOld
        newCells(j) ==
            IF mode \in {"none", "commit"} THEN ch[j].x
            ELSE IF ~ch[j % oldN].evac THEN EmptyCells
            ELSE IF j < oldN THEN ch[j].x ELSE ch[j % oldN].y
    IN  [B |-> B,
         hmapBase |-> base,
         beyond |-> [tophash |-> beyond, overflow |-> 0],
         buckets |-> [j \in 1..newN |->
                         [tophash |-> newCells(j - 1),
                          overflow |-> IF ovfOnNew /\ j = 1 THEN 1 ELSE 0]],
         oldbuckets |-> [o \in 1..oldN |->
                            [tophash |-> IF ch[o - 1].evac THEN EvacuatedCells(ch[o - 1].x)
                                         ELSE ch[o - 1].x,
                             overflow |-> IF ovfOnOld /\ o = 1 THEN 1 ELSE 0]],
         ovf |-> IF withOvf
                 THEN << [tophash |-> [i \in 1..BucketCnt |->
                                          IF i = 1 THEN hashMinTopHash ELSE hashTophashEmptyZero],
                          overflow |-> 0] >>
                 ELSE <<>>]

MapInit ==
    /\ RunIdle
    /\ BitsIdle
    /\ PbIdle
    /\ McIdle
    /\ OrIdle
    /\ FnIdle
    /\ \E B \in 0..MaxB, mode \in {"none", "double", "same", "commit"}, withOvf \in BOOLEAN,
          base \in {ObjA, ObjC} :
          /\ (mode \in {"double", "commit"} => B >= 1)
          /\ \E ch \in [0..((IF mode \in {"double", "commit"} THEN Pow2(B - 1)
                                ELSE Pow2(B)) - 1)
                          -> Choices(mode)],
                beyond \in (IF mode = "commit" THEN Contents ELSE {EmptyCells}) :
                hm = MapOf(B, mode, ch, withOvf, base, beyond)
    /\ it = [state |-> "fresh"]
    /\ yielded = <<>>
    /\ mapRead = <<>>

\* it, err = s.toMapIterator(y, typ.KeyType, typ.ElemType)
MapToIterator ==
    /\ it.state = "fresh"
    /\ it' = toMapIterator(hm)
    /\ UNCHANGED <<hm, yielded, mapRead, runVars, bitVars, pbVars, mcVars, orVars, fnVars>>

\* One it.next(s) of the loop of findRef's map case.
MapNext ==
    /\ it.state = "iterating"
    /\ LET r == next(hm, it)
       IN  /\ it' = IF r.ok THEN r.it ELSE [r.it EXCEPT !.state = "end"]
           /\ yielded' = IF r.ok
                         THEN Append(yielded, [b |-> r.it.b, idx |-> r.it.idx - 1])
                         ELSE yielded
           /\ mapRead' = mapRead \o r.read
    /\ UNCHANGED <<hm, runVars, bitVars, pbVars, mcVars, orVars, fnVars>>

MapSpecNext == MapToIterator \/ MapNext

MapSpec == MapInit /\ [][MapSpecNext]_vars

-----------------------------------------------------------------------------
\* The iterator driven directly, as TestHeapBits drives it (heap_test.go):
\* newGCBitsIterator(base, end, maskBase, make([]uint64, 2)) with the bits of
\* some offsets set, then nextPtr(true) calls, or the test's loop of
\* nextPtr(false) / resetGCMask / nextPtr(false), or readPointer calls.

BMaskLen == 2
BMaxCalls == 8
BMaxReads == 2

\* Offsets whose bits may be set: the test's five and the edges of the words.
BOffsets == {0, 16, 72, 208, 504, 928, 1016}
\* Windows [base, end) as offsets from maskBase.
BWindows == {<<0, 1024>>, <<16, 512>>, <<208, 936>>}
BMaskBases == {0, 4096}

\* The addresses of the window whose bit is set in the mask.
SetInWindow(hb, mask) ==
    {a \in {Add(hb.maskBase, 8 * k) : k \in 0..(64 * BMaskLen - 1)} :
        /\ a >= hb.base /\ a < hb.end
        /\ ((Sub(a, hb.maskBase) \div 8) % 64)
               \in mask[(Sub(a, hb.maskBase) \div 8) \div 64]}

\* Target memory behind the iterator: every word of the masked range is mapped.
BMem(maskBase) == [a \in {Add(maskBase, 8 * k) : k \in 0..(64 * BMaskLen - 1)} |-> 0]

\* Addresses handed to readPointer: inside and outside the window.
BReadAddrs(hb) ==
    {hb.base, Add(hb.base, 8), Add(hb.end, -8), hb.end, Add(hb.end, 8),
     Add(hb.maskBase, 504), Add(hb.maskBase, 512)}
      \cup (IF hb.base >= 8 THEN {Add(hb.base, -8)} ELSE {})

BitsInit ==
    /\ RunIdle
    /\ MapIdle
    /\ PbIdle
    /\ McIdle
    /\ OrIdle
    /\ FnIdle
    /\ \E mb \in BMaskBases, win \in BWindows, O \in SUBSET BOffsets,
          mode \in {"drain", "test", "read"} :
          /\ bHb = newGCBitsIterator(Add(mb, win[1]), Add(mb, win[2]), mb)
          /\ bMask = MaskOf(O, BMaskLen)
          /\ bMode = [mode |-> mode,
                      O |-> {Add(mb, o) : o \in {x \in O : x >= win[1] /\ x < win[2]}}]
    /\ bOut = <<>>
    /\ bLast = [op |-> "init", at |-> 0, ret |-> 0, err |-> "nil", before |-> {}]
    /\ bReads = 0

\* One more nextPtr(true) on the iterator.
BNextPtrAck ==
    /\ bMode.mode = "drain"
    /\ Len(bOut) < BMaxCalls
    /\ LET r == nextPtr(bHb, bMask, TRUE)
       IN  /\ bHb' = r.hb
           /\ bOut' = Append(bOut, r.addr)
           /\ bLast' = [op |-> "nextPtr", at |-> 0, ret |-> r.addr, err |-> "nil",
                        before |-> SetInWindow(bHb, bMask)]
    /\ UNCHANGED <<bMask, bMode, bReads, runVars, mapVars, pbVars, mcVars, orVars, fnVars>>

\* One pass of the body of TestHeapBits's loop: nextPtr(false) returns a,
\* resetGCMask(a), nextPtr(false) again.
BTestIteration ==
    /\ bMode.mode = "test"
    /\ bLast.err # "panic"
    /\ LET a == nextPtr(bHb, bMask, FALSE).addr
       IN  /\ a # 0
           /\ LET r == resetGCMask(bHb, bMask, a)
                  n == nextPtr(bHb, r.mask, FALSE).addr
              IN  /\ bMask' = r.mask
                  /\ bLast' = [op |-> "testIter", at |-> a,
                               ret |-> IF r.err = "nil" THEN n ELSE 0,
                               err |-> r.err, before |-> SetInWindow(bHb, bMask)]
                  /\ bLast' # bLast
    /\ UNCHANGED <<bHb, bMode, bOut, bReads, runVars, mapVars, pbVars, mcVars, orVars, fnVars>>

\* readPointer(at) on a variable that carries the iterator.
BReadPointer ==
    /\ bMode.mode = "read"
    /\ bLast.err # "panic"
    /\ bReads < BMaxReads
    /\ \E at \in BReadAddrs(bHb) :
          LET r == readPointer(bHb, bMask, BMem(bHb.maskBase), at)
          IN  /\ bMask' = r.mask
              /\ bReads' = bReads + r.reads
              /\ bLast' = [op |-> "readPointer", at |-> at, ret |-> r.val,
                           err |-> r.err, before |-> SetInWindow(bHb, bMask)]
    /\ UNCHANGED <<bHb, bMode, bOut, runVars, mapVars, pbVars, mcVars, orVars, fnVars>>

BitsNext == BNextPtrAck \/ BTestIteration \/ BReadPointer

BitsSpec == BitsInit /\ [][BitsNext]_vars

-----------------------------------------------------------------------------
\* The run on targets with a channel: findRef's ChanType and ArrayType cases.

\* The primed variables of a step of findRef's channel case.
ChanStep(stk, vm, sv, mask, reads, marks, calls, ph) ==
    /\ stack' = stk
    /\ visitMask' = vm
    /\ segVisit' = sv
    /\ ptrMask' = mask
    /\ hist' = [hist EXCEPT !.reads = @ + reads,
                            !.marks = @ \o Logged(marks),
                            !.calls = @ + calls]
    /\ phase' = ph

\* The offset of the field of that name in a struct type.
FieldOff(t, name) ==
    LET fs == TypeOf(t).fields
    IN  fs[CHOOSE i \in DOMAIN fs : fs[i].name = name].off

\* case *godwarf.ChanType: the hchan is found and added to x, its buf is read
\* (dataqsiz stays 0), the buffer is found as an array and findRef walks it.
FindRefChan ==
    /\ Running
    /\ stack # <<>> /\ Len(stack) < MaxStack
    /\ top.fn = "findRef" /\ top.pc = "body"
    /\ TypeOf(top.x.typ).kind = "Chan"
    /\ LET g == (phase = "locals")
           r == readPointer(top.x.hb, ptrMask, tgt.mem, top.x.Addr)
           o == findObject(r.val, TypeOf(top.x.typ).elem, visitMask, segVisit, g)
           y == o.v
           x1 == [top EXCEPT !.x.size = @ + y.size, !.x.count = @ + y.count]
           rb == readPointer(y.hb, r.mask, tgt.mem, Add(y.Addr, FieldOff("hchan", "buf")))
           oz == findObject(rb.val, "[0]*Node", o.vm, o.sv, g)
       IN  IF r.err = "panic"
           THEN ChanStep(stack, visitMask, segVisit, ptrMask, 0, <<>>, 0, "panic")
           ELSE IF r.err # "nil"
           THEN ChanStep(ReplaceTop(stack, [top EXCEPT !.pc = "ret", !.err = r.err]),
                         visitMask, segVisit, r.mask, r.reads, <<>>, 0, phase)
           ELSE IF y = NoVar
           THEN ChanStep(ReplaceTop(stack, [top EXCEPT !.pc = "ret"]),
                         o.vm, o.sv, r.mask, r.reads, o.marks, 0, phase)
           ELSE IF rb.err = "panic"
           THEN ChanStep(ReplaceTop(stack, x1), o.vm, o.sv, r.mask, r.reads, o.marks, 0,
                         "panic")
           ELSE IF rb.err # "nil"
           THEN ChanStep(ReplaceTop(stack, [x1 EXCEPT !.pc = "ret", !.err = rb.err]),
                         o.vm, o.sv, rb.mask, r.reads + rb.reads, o.marks, 0, phase)
           ELSE IF oz.v = NoVar
           THEN ChanStep(ReplaceTop(stack, [x1 EXCEPT !.pc = "ret"]),
                         oz.vm, oz.sv, rb.mask, r.reads + rb.reads, o.marks \o oz.marks, 0,
                         phase)
           ELSE ChanStep(Push(ReplaceTop(stack, [x1 EXCEPT !.pc = "afterCall"]),
                              findRefFrame(oz.v, top.idx)),
                         oz.vm, oz.sv, rb.mask, r.reads + rb.reads, o.marks \o oz.marks, 1,
                         phase)
    /\ UNCHANGED <<tgt, maxRefDepth, rootIdx, finalMarks, fmIdx, fmAcc, nodes,
                   bitVars, mapVars, pbVars, mcVars, orVars, fnVars>>

\* case *godwarf.ArrayType of an array of typ.Count = 0 elements: the loop
\* over the elements makes no pass.
FindRefArray ==
    /\ Running
    /\ stack # <<>>
    /\ top.fn = "findRef" /\ top.pc = "body"
    /\ TypeOf(top.x.typ).kind = "Array"
    /\ stack' = ReplaceTop(stack, [top EXCEPT !.pc = "ret"])
    /\ UNCHANGED <<tgt, maxRefDepth, phase, rootIdx, finalMarks, fmIdx, fmAcc, nodes,
                   visitMask, ptrMask, segVisit, hist, bitVars, mapVars, pbVars, mcVars,
                   orVars, fnVars>>

\* The targets with a channel: the package variable main.ch (chan *Node)
\* points to the hchan ch, whose buf is nil or the array at ObjB and whose
\* recvq.first is nil or another object; the first word of ObjB is e0; the
\* local L0 is l0.
ChanInit ==
    /\ BitsIdle
    /\ MapIdle
    /\ PbIdle
    /\ McIdle
    /\ OrIdle
    /\ FnIdle
    /\ \E ch \in {ObjA, ObjC}, buf \in {0, ObjB}, rq \in {0, ObjB, ObjA, ObjC},
          e0 \in {0, ObjA, ObjC}, g1 \in {0, ObjC}, l0 \in {0, ObjB}, max \in MaxRefDepths :
          LET hv == [w \in NextWords \cup RawWords |->
                        IF w = ch THEN buf
                        ELSE IF w = Add(ch, 8) THEN rq
                        ELSE IF w = ObjB THEN e0 ELSE 0]
              t == Target(hv, {ObjA, ObjB, ObjC}, ch, g1, l0, <<>>, 0)
          IN  /\ rq # ch
              /\ e0 # ch
              /\ RunInit([t EXCEPT !.globals[1] =
                             [Addr |-> G0Addr, Name |-> "main.ch", typ |-> "chan *Node"]],
                         max)

ChanNext ==
    \/ NextPhase
    \/ RootVariable
    \/ RootResidue
    \/ FindRefRefuse
    \/ FindRefEnter
    \/ FindRefPtr
    \/ FindRefStruct
    \/ FindRefDefault
    \/ FindRefChan
    \/ FindRefArray
    \/ FindRefReturn
    \/ FinalMarkNext
    \/ FinalMarkRecord
    \/ MarkObjectNext
    \/ MarkObjectReturn
    \/ Flush

ChanSpec == ChanInit /\ [][ChanNext]_vars

-----------------------------------------------------------------------------
\* The profile builder (protobuf.go) driven directly: pushHead builds
\* location chains, addReference accumulates, flush writes the profile.
\* The string table is a sequence whose element i + 1 is Go's strings[i].
\* A pprofIndex is the sequence of its string ids, root first; <<>> is nil.

PbMaxIdx == 3
PbMaxDepth == 2
PbMaxCalls == 3

\* newProfileBuilder: the table starts with "" and the names of the two
\* sample types.
newStrings == <<"", "inuse_objects", "count", "inuse_space", "bytes">>

\* stringIndex: the id of s, appended to the table when it is new.
stringIndex(strings, s) ==
    IF \E i \in DOMAIN strings : strings[i] = s
    THEN [id |-> (CHOOSE i \in DOMAIN strings : strings[i] = s) - 1, strings |-> strings]
    ELSE [id |-> Len(strings), strings |-> Append(strings, s)]

\* pprofIndex.pushHead on string ids.
pushHeadIdx(strings, i, name) ==
    IF name = "" THEN [idx |-> i, strings |-> strings]
    ELSE LET r == stringIndex(strings, name)
         IN  [idx |-> Append(i, r.id), strings |-> r.strings]

\* pprofIndex.indexes: the ids from the leaf back to the root.
indexes(i) == [k \in 1..Len(i) |-> i[Len(i) + 1 - k]]

\* uint64s2str: the bytes of the slice's memory, 8 per element, little endian.
RECURSIVE byteOf(_, _)
byteOf(u, n) == IF n = 0 THEN u % 256 ELSE byteOf(u \div 256, n - 1)

uint64s2str(us) ==
    [k \in 1..(8 * Len(us)) |-> byteOf(us[((k - 1) \div 8) + 1], (k - 1) % 8)]

RECURSIVE leUint64(_, _, _)
leUint64(s, at, n) ==
    IF n = 0 THEN 0 ELSE s[at] + 256 * leUint64(s, at + 1, n - 1)

\* str2uint64s: len(s)/8 elements read back from the bytes of the string.
str2uint64s(s) == [j \in 1..(Len(s) \div 8) |-> leUint64(s, 8 * (j - 1) + 1, 8)]

\* A faulty variant of addReference: the entry is overwritten.
addReferenceOverwrite(nd, us, count, bytes) ==
    LET k == uint64s2str(us)
    IN  IF k \in DOMAIN nd
        THEN [nd EXCEPT ![k] = [count |-> count, size |-> bytes]]
        ELSE nd @@ (k :> [count |-> count, size |-> bytes])

\* profileBuilder.addReference
addReference(nd, us, count, bytes) ==
    LET k == uint64s2str(us)
    IN  IF k \in DOMAIN nd
        THEN [nd EXCEPT ![k] = [count |-> @.count + count, size |-> @.size + bytes]]
        ELSE nd @@ (k :> [count |-> count, size |-> bytes])

\* profileBuilder.flushReference: one Sample message per entry (the map is
\* ranged over in no particular order, so the samples are a set).
flushReference(nd) ==
    {[value |-> <<nd[k].count, nd[k].size>>, location_id |-> str2uint64s(k)] : k \in DOMAIN nd}

\* A faulty variant of flush's loop: it starts one id too late.
flushIdsLate(strings) == 6..(Len(strings) - 1)

\* The ids of flush's loop: for i := uint64(5); i < uint64(len(b.strings)); i++
flushIds(strings) == 5..(Len(strings) - 1)

\* profileBuilder.flush: the messages written.
flush(strings, nd) ==
    [flushed |-> TRUE,
     sample |-> flushReference(nd),
     location |-> {[id |-> i, line |-> [function_id |-> i, line |-> 0]] : i \in flushIds(strings)},
     function |-> {[id |-> i, name |-> i] : i \in flushIds(strings)},
     string_table |-> strings]

\* The names the walker passes to pushHead: qualified names of variables and
\* functions, field and element names with their type, and fixed names.
PbNames == {"main.G0", "next. (*Node)", "$sub_objects$"}

\* The (count, bytes) pairs of the calls.
PbValues == {<<1, 16>>, <<2, 48>>}

PbInit ==
    /\ RunIdle
    /\ BitsIdle
    /\ MapIdle
    /\ McIdle
    /\ OrIdle
    /\ FnIdle
    /\ pbStrings = newStrings
    /\ pbIdxs = {}
    /\ pbNodes = <<>>
    /\ pbLog = <<>>
    /\ pbOut = [flushed |-> FALSE]

\* idx = idx.pushHead(s.pb, name)
PbPushHead ==
    /\ ~pbOut.flushed
    /\ Cardinality(pbIdxs) < PbMaxIdx
    /\ \E parent \in pbIdxs \cup {<<>>}, name \in PbNames :
          /\ Len(parent) < PbMaxDepth
          /\ LET r == pushHeadIdx(pbStrings, parent, name)
             IN  /\ r.idx \notin pbIdxs
                 /\ pbIdxs' = pbIdxs \cup {r.idx}
                 /\ pbStrings' = r.strings
    /\ UNCHANGED <<pbNodes, pbLog, pbOut, runVars, bitVars, mapVars, mcVars, orVars, fnVars>>

\* s.pb.addReference(idx.indexes(), count, size)
PbAddReference ==
    /\ ~pbOut.flushed
    /\ Len(pbLog) < PbMaxCalls
    /\ \E i \in pbIdxs \cup {<<>>}, v \in PbValues :
          /\ pbNodes' = addReference(pbNodes, indexes(i), v[1], v[2])
          /\ pbLog' = Append(pbLog, [indexes |-> indexes(i), count |-> v[1], bytes |-> v[2]])
    /\ UNCHANGED <<pbStrings, pbIdxs, pbOut, runVars, bitVars, mapVars, mcVars, orVars, fnVars>>

\* s.pb.flush()
PbFlush ==
    /\ ~pbOut.flushed
    /\ pbOut' = flush(pbStrings, pbNodes)
    /\ UNCHANGED <<pbStrings, pbIdxs, pbNodes, pbLog, runVars, bitVars, mapVars, mcVars, orVars, fnVars>>

PbNext == PbPushHead \/ PbAddReference \/ PbFlush

PbSpec == PbInit /\ [][PbNext]_vars

-----------------------------------------------------------------------------
\* memCache and cacheMemory (gcmask.go).  A reader is the target's memory
\* itself ([kind |-> "mem"]) or a memCache over it; the memory of a memCache
\* made by cacheMemory is always the target's memory.  fills is history only:
\* the number of times the buffer was read from the underlying reader.

McMaxWraps == 2
McMaxReads == 3

\* cacheThreshold, 1GB in the code, scaled to the addresses of the model.
cacheThreshold == 64

\* The target's memory: the bytes of [McMapLo, McMapHi) are mapped.
McMapLo == 0
McMapHi == 16
McByte(a) == (7 * a + 3) % 256

\* ReadMemory of the target's memory.
memRead(addr, n) ==
    IF addr >= McMapLo /\ addr + n <= McMapHi
    THEN [err |-> "nil", data |-> [i \in 1..n |-> McByte(addr + i - 1)]]
    ELSE [err |-> "fault", data |-> <<>>]

RawMem == [kind |-> "mem"]

\* &memCache{false, addr, make([]byte, size), mem}
newMemCache(addr, size) ==
    [kind |-> "cache", loaded |-> FALSE, cacheAddr |-> addr,
     cache |-> [i \in 1..size |-> 0], fills |-> 0]

\* memCache.contains
contains(m, addr, size) ==
    LET end == Add(addr, size)
    IN  IF end < addr THEN FALSE
        ELSE addr >= m.cacheAddr /\ end <= m.cacheAddr + Len(m.cache)

\* A faulty variant of the fill: the buffer is not remembered as loaded.
fillCacheForget(m, data) == [m EXCEPT !.cache = data, !.fills = @ + 1]

\* The buffer after m.mem.ReadMemory(m.cache, m.cacheAddr) succeeded.
fillCache(m, data) == [m EXCEPT !.cache = data, !.loaded = TRUE, !.fills = @ + 1]

\* memCache.ReadMemory(data, addr) with len(data) = n, and ReadMemory of the
\* target's memory for a reader that is no cache: the reader afterwards, the
\* bytes and the error returned, how the read was served and the reads of
\* the underlying reader it made.
ReadMemory(r, addr, n) ==
    IF r.kind = "cache" /\ contains(r, addr, n)
    THEN LET f == memRead(r.cacheAddr, Len(r.cache))
             fill == [addr |-> r.cacheAddr, n |-> Len(r.cache), err |-> f.err]
             m == IF r.loaded THEN r ELSE fillCache(r, f.data)
         IN  IF ~r.loaded /\ f.err # "nil"
             THEN [r |-> r, data |-> <<>>, err |-> f.err, served |-> "error",
                   under |-> <<fill>>]
             ELSE [r |-> m,
                   data |-> [i \in 1..n |-> m.cache[addr - m.cacheAddr + i]],
                   err |-> "nil", served |-> "buffer",
                   under |-> IF r.loaded THEN <<>> ELSE <<fill>>]
    ELSE LET f == memRead(addr, n)
         IN  [r |-> r, data |-> f.data, err |-> f.err, served |-> "forward",
              under |-> << [addr |-> addr, n |-> n, err |-> f.err] >>]

\* cacheMemory(mem, addr, size)
cacheMemory(mem, addr, size) ==
    IF size <= 0 THEN mem
    ELSE IF Add(addr, size) < addr THEN mem
    ELSE IF size > cacheThreshold THEN mem
    ELSE IF mem.kind = "cache"
         THEN IF contains(mem, addr, size) THEN mem ELSE newMemCache(addr, size)
         ELSE newMemCache(addr, size)

\* The windows asked of cacheMemory, and the reads made.
McAddrs == {0, 8, 16, AddrMod - 4}
McSizes == {0 - 8, 0, 8, 12, cacheThreshold + 1}
McReadAddrs == {0, 4, 8, 16}
McLens == {4, 8}

McInit ==
    /\ RunIdle
    /\ BitsIdle
    /\ MapIdle
    /\ PbIdle
    /\ OrIdle
    /\ FnIdle
    /\ mc = [r |-> RawMem, wraps |-> 0, addr |-> 0, size |-> 0, given |-> RawMem]
    /\ mcUnder = <<>>
    /\ mcLast = [op |-> "init"]

\* mem = cacheMemory(mem, addr, size)
McCacheMemory ==
    /\ mc.wraps < McMaxWraps
    /\ \E addr \in McAddrs, size \in McSizes :
          mc' = [r |-> cacheMemory(mc.r, addr, size), wraps |-> mc.wraps + 1,
                 addr |-> addr, size |-> size, given |-> mc.r]
    /\ mcLast' = [op |-> "cacheMemory"]
    /\ UNCHANGED <<mcUnder, runVars, bitVars, mapVars, pbVars, orVars, fnVars>>

\* mem.ReadMemory(data, addr) on the reader last returned by cacheMemory.
McReadMemory ==
    /\ mc.wraps > 0
    /\ Len(mcUnder) < McMaxReads
    /\ \E addr \in McReadAddrs, n \in McLens :
          LET x == ReadMemory(mc.r, addr, n)
          IN  /\ mc' = [mc EXCEPT !.r = x.r]
              /\ mcUnder' = mcUnder \o x.under
              /\ mcLast' = [op |-> "read", addr |-> addr, n |-> n, data |-> x.data,
                            err |-> x.err, served |-> x.served, under |-> x.under,
                            loaded |-> (mc.r.kind = "cache" /\ mc.r.loaded)]
    /\ UNCHANGED <<runVars, bitVars, mapVars, pbVars, orVars, fnVars>>

McNext == McCacheMemory \/ McReadMemory

McSpec == McInit /\ [][McNext]_vars

-----------------------------------------------------------------------------
\* The start of ObjectReference (reference.go): the thread scope, readHeap,
\* the creation of the output file and the module data, each of which may
\* fail, and then the run.  The run is idle until the initialization is over.

\* The errors ObjectReference returns from its initialization.
OrErrors ==
    [ThreadScope |-> {"ThreadScope"},
     readHeap |-> {"dwarf reader is nil", "runtime.mheap_", "runtime.firstmoduledata"},
     Create |-> {"os.Create"},
     LoadModuleData |-> {"LoadModuleData"}]

OrInit ==
    /\ BitsIdle
    /\ MapIdle
    /\ PbIdle
    /\ McIdle
    /\ FnIdle
    /\ \E a \in {ObjA, ObjC}, b \in NextWords, f \in FinalizerChoices, max \in MaxRefDepths :
          LET hv == [w \in NextWords \cup RawWords |->
                        IF w = ObjA THEN a
                        ELSE IF w = ObjB THEN b
                        ELSE IF w = ObjC THEN ObjA ELSE 0]
              t == Target(hv, {ObjA, ObjB, ObjC}, ObjB, ObjC, 0, f.fins, f.closure)
          IN  /\ (f.closure = FuncvalAddr) = (max = 1)
              /\ tgt = t
              /\ maxRefDepth = max
              /\ ptrMask = MaskOf({Sub(o, Layout.spanBase) + d : o \in t.objs, d \in {0, 8}},
                                  SpanMaskLen)
    /\ phase = "idle"
    /\ rootIdx = 1
    /\ stack = <<>>
    /\ finalMarks = <<>>
    /\ fmIdx = 1
    /\ fmAcc = [size |-> 0, count |-> 0]
    /\ nodes = <<>>
    /\ visitMask = EmptyMask(SpanMaskLen)
    /\ segVisit = [bss |-> EmptyMask(segmentMaskLen(Layout.bssStart, Layout.bssEnd)),
                   data |-> EmptyMask(segmentMaskLen(Layout.dataStart, Layout.dataEnd)),
                   stack |-> EmptyMask(segmentMaskLen(Layout.stackLo, Layout.stackHi))]
    /\ hist = Hist0
    /\ orStep = "ThreadScope"
    /\ orFile = "absent"
    /\ orRet = "none"

\* scope, err := proc.ThreadScope(t, t.CurrentThread())
OrThreadScope ==
    /\ orStep = "ThreadScope"
    /\ \/ /\ orStep' = "readHeap"
          /\ orRet' = orRet
       \/ \E err \in OrErrors.ThreadScope :
             /\ orStep' = "returned"
             /\ orRet' = err
    /\ UNCHANGED <<orFile, runVars, bitVars, mapVars, pbVars, mcVars, fnVars>>

\* err = heapScope.readHeap(): the DWARF reader, runtime.mheap_ or
\* runtime.firstmoduledata may be missing.
OrReadHeap ==
    /\ orStep = "readHeap"
    /\ \/ /\ orStep' = "Create"
          /\ orRet' = orRet
       \/ \E err \in OrErrors.readHeap :
             /\ orStep' = "returned"
             /\ orRet' = err
    /\ UNCHANGED <<orFile, runVars, bitVars, mapVars, pbVars, mcVars, fnVars>>

\* f, err := os.Create(filename)
OrCreate ==
    /\ orStep = "Create"
    /\ \/ /\ orStep' = "LoadModuleData"
          /\ orFile' = "created"
          /\ orRet' = orRet
       \/ \E err \in OrErrors.Create :
             /\ orStep' = "returned"
             /\ orRet' = err
             /\ orFile' = orFile
    /\ UNCHANGED <<runVars, bitVars, mapVars, pbVars, mcVars, fnVars>>

\* mds, err := proc.LoadModuleData(t.BinInfo(), t.Memory()); the walk of the
\* roots starts when it succeeds.
OrLoadModuleData ==
    /\ orStep = "LoadModuleData"
    /\ \/ /\ orStep' = "walk"
          /\ phase' = "globals"
          /\ UNCHANGED <<orRet, orFile>>
       \/ \E err \in OrErrors.LoadModuleData :
             /\ orStep' = "returned"
             /\ orRet' = err
             /\ orFile' = orFile
             /\ phase' = phase
    /\ UNCHANGED <<tgt, maxRefDepth, rootIdx, stack, finalMarks, fmIdx, fmAcc, nodes,
                   visitMask, ptrMask, segVisit, hist, bitVars, mapVars, pbVars, mcVars, fnVars>>

\* return nil, after s.pb.flush() wrote the profile to the file.
OrReturn ==
    /\ orStep = "walk"
    /\ phase = "done"
    /\ orStep' = "returned"
    /\ orRet' = "nil"
    /\ orFile' = "written"
    /\ UNCHANGED <<runVars, bitVars, mapVars, pbVars, mcVars, fnVars>>

OrNext ==
    \/ OrThreadScope
    \/ OrReadHeap
    \/ OrCreate
    \/ OrLoadModuleData
    \/ OrReturn
    \/ Next

OrSpec == OrInit /\ [][OrNext]_vars

-----------------------------------------------------------------------------
\* Address.Sub, Address.Add (address.go) and CeilDivide (variables.go) called
\* directly.  int64 and Address are AddrBits wide in the model.

\* The largest int64 of the model's width.
MaxInt == AddrMod \div 2 - 1

\* The conversion int64(u) of an unsigned value of the model's width.
ToInt(u) ==
    LET d == u % AddrMod
    IN  IF d > MaxInt THEN d - AddrMod ELSE d

\* A faulty variant of CeilDivide: (n + d - 1) / d in int64 arithmetic.
CeilDivideSum(n, d) ==
    LET s == ToInt(n + d - 1)
    IN  IF s >= 0 THEN s \div d ELSE 0 - ((0 - s) \div d)

\* CeilDivide: r := n / d; if n%d > 0 { r++ }; for n >= 0 and d > 0.
CeilDivide(n, d) ==
    LET r == n \div d
    IN  IF n % d > 0 THEN ToInt(r + 1) ELSE r

\* Addresses and signed offsets at the edges of the address range.
ArAddrs == {0, 8, 4096, MaxInt, MaxInt + 1, AddrMod - 8, AddrMod - 1}
ArOffsets == {0 - MaxInt, 0 - 8, 0, 8, MaxInt}
\* Numerators and divisors: the cases of Test_CeilDivide and the edges.
ArNums == {0, 1, 9, 10, 64, MaxInt - 1, MaxInt}
ArDivs == {1, 2, 3, 8, 64, MaxInt - 1, MaxInt}

ArInit ==
    /\ RunIdle
    /\ BitsIdle
    /\ MapIdle
    /\ PbIdle
    /\ McIdle
    /\ OrIdle
    /\ FnIdle

\* a.Sub(b)
ArSub ==
    /\ \E a \in ArAddrs, b \in ArAddrs :
          ar' = [op |-> "Sub", a |-> a, b |-> b, ret |-> Sub(a, b)]
    /\ UNCHANGED <<runVars, bitVars, mapVars, pbVars, mcVars, orVars,
                   siVars, gcVars, swVars>>

\* a.Add(x)
ArAdd ==
    /\ \E a \in ArAddrs, x \in ArOffsets :
          ar' = [op |-> "Add", a |-> a, b |-> x, ret |-> Add(a, x)]
    /\ UNCHANGED <<runVars, bitVars, mapVars, pbVars, mcVars, orVars,
                   siVars, gcVars, swVars>>

\* CeilDivide(n, d)
ArCeilDivide ==
    /\ \E n \in ArNums, d \in ArDivs :
          ar' = [op |-> "CeilDivide", a |-> n, b |-> d, ret |-> CeilDivide(n, d)]
    /\ UNCHANGED <<runVars, bitVars, mapVars, pbVars, mcVars, orVars,
                   siVars, gcVars, swVars>>

ArNext == ArSub \/ ArAdd \/ ArCeilDivide

ArSpec == ArInit /\ [][ArNext]_vars

-----------------------------------------------------------------------------
\* The span index (heap.go): readAllSpans enters every page of every in-use
\* span of mheap_.allspans into arenaInfo with allocSpan, and spanOf and
\* findSpanAndBase look addresses up in it.  The runtime constants are scaled
\* to the addresses of the model.  arenaInfo is a function of (l1, l2, idx);
\* a nil array of the code is an array of nil entries here, and 0 is nil.

\* runtime._PageSize, heapArenaBytes / _PageSize and arenaL2Bits.
SiPageSize == 16
SiPagesPerArena == 2
SiArenaL2Bits == 2
SiArenaBytes == SiPagesPerArena * SiPageSize

\* The number of entries of mheap_.allspans.
SiMaxSpans == 3

\* The runtimes: arenaL1Bits and arenaBaseOffset.
SiConfigs ==
    [arenaL1Bits : {0, 1}, arenaBaseOffset : {0, SiArenaBytes}]

\* HeapScope.arenaIndex
arenaIndex(cfg, p) == ((p + cfg.arenaBaseOffset) % AddrMod) \div SiArenaBytes

\* HeapScope.indexes
SiIndexesNoWrap(cfg, addr) ==
    [l1 |-> 0, l2 |-> arenaIndex(cfg, addr), idx |-> addr \div SiPageSize]

SiIndexes(cfg, addr) ==
    LET ri == arenaIndex(cfg, addr)
    IN  [l1 |-> IF cfg.arenaL1Bits = 0 THEN 0 ELSE ri \div (2 ^ SiArenaL2Bits),
         l2 |-> IF cfg.arenaL1Bits = 0 THEN ri ELSE ri % (2 ^ SiArenaL2Bits),
         idx |-> (addr \div SiPageSize) % SiPagesPerArena]

\* Whether the arrays of arenaInfo have an entry at x.
SiInBounds(cfg, x) ==
    /\ x.l1 < 2 ^ cfg.arenaL1Bits
    /\ x.l2 < 2 ^ SiArenaL2Bits
    /\ x.idx < SiPagesPerArena

SiSlots(cfg) ==
    [l1 : 0..(2 ^ cfg.arenaL1Bits - 1), l2 : 0..(2 ^ SiArenaL2Bits - 1),
     idx : 0..(SiPagesPerArena - 1)]

\* HeapScope.allocSpan(addr, sp), sp being the k-th entry of allspans.
allocSpan(cfg, info, addr, k) ==
    LET x == SiIndexes(cfg, addr)
    IN  IF ~SiInBounds(cfg, x) THEN info
        ELSE IF info[x] = 0 THEN [info EXCEPT ![x] = k]
        ELSE info

\* for addr := base; addr < max; addr = addr.Add(s.pageSize) { allocSpan }
RECURSIVE SiAllocPages(_, _, _, _, _)
SiAllocPages(cfg, info, addr, max, k) ==
    IF addr < max
    THEN SiAllocPages(cfg, allocSpan(cfg, info, addr, k), Add(addr, SiPageSize), max, k)
    ELSE info

\* HeapScope.spanOf on the index: the entry of allspans, or 0.
SiSpanOf(cfg, info, addr) ==
    LET x == SiIndexes(cfg, addr)
    IN  IF SiInBounds(cfg, x) THEN info[x] ELSE 0

\* offset / elemSize of Go, which truncates toward zero.
SiQuot(n, d) == IF n >= 0 THEN n \div d ELSE 0 - ((0 - n) \div d)

\* HeapScope.findSpanAndBase on the index.
SiFindSpanAndBase(cfg, spans, info, addr) ==
    LET k == SiSpanOf(cfg, info, addr)
    IN  IF k = 0 THEN [sp |-> 0, base |-> 0]
        ELSE LET offset == Sub(addr, spans[k].base)
             IN  [sp |-> k,
                  base |-> Add(spans[k].base,
                               SiQuot(offset, spans[k].elemSize) * spans[k].elemSize)]

\* The mspans of the targets: in-use spans of small and of large objects,
\* and dead spans, whose fields are stale.
SiSpanChoices ==
    { [base |-> 0,   npages |-> 1, elemSize |-> 8,  state |-> "inUse"],
      [base |-> 16,  npages |-> 1, elemSize |-> 16, state |-> "inUse"],
      [base |-> 16,  npages |-> 3, elemSize |-> 24, state |-> "inUse"],
      [base |-> 32,  npages |-> 2, elemSize |-> 32, state |-> "inUse"],
      [base |-> 64,  npages |-> 2, elemSize |-> 24, state |-> "inUse"],
      [base |-> 128, npages |-> 2, elemSize |-> 16, state |-> "inUse"],
      [base |-> 0,   npages |-> 2, elemSize |-> 16, state |-> "dead"],
      [base |-> 32,  npages |-> 1, elemSize |-> 8,  state |-> "dead"] }

SiSpanSize(sp) == sp.npages * SiPageSize

SiContains(sp, a) == a >= sp.base /\ a < sp.base + SiSpanSize(sp)

\* The heap addresses the runtime's own index can hold.
SiHeapLimit(cfg) ==
    2 ^ (cfg.arenaL1Bits + SiArenaL2Bits) * SiArenaBytes - cfg.arenaBaseOffset

\* The addresses looked up: inside and outside the heap.
SiAddrs == {a \in 0..(2 ^ (1 + SiArenaL2Bits) * SiArenaBytes + SiArenaBytes) : a % 8 = 0}
             \cup {4, 44, 60, AddrMod - SiArenaBytes, AddrMod - 8}

SiInit ==
    /\ RunIdle
    /\ BitsIdle
    /\ MapIdle
    /\ PbIdle
    /\ McIdle
    /\ OrIdle
    /\ ArIdle
    /\ GcIdle
    /\ SwIdle
    /\ \E cfg \in SiConfigs, spans \in [1..SiMaxSpans -> SiSpanChoices] :
          /\ \A i, j \in 1..SiMaxSpans : i < j => spans[i] # spans[j]
          /\ \A i \in 1..SiMaxSpans :
                spans[i].state = "inUse" =>
                    /\ spans[i].base + SiSpanSize(spans[i]) <= SiHeapLimit(cfg)
                    /\ \A j \in 1..SiMaxSpans :
                          (j # i /\ spans[j].state = "inUse") =>
                              \A a \in SiAddrs : ~(SiContains(spans[i], a) /\ SiContains(spans[j], a))
          /\ si = [op |-> "init", cfg |-> cfg, allspans |-> spans, i |-> 0,
                   arenaInfo |-> [x \in SiSlots(cfg) |-> 0],
                   addr |-> 0, sp |-> 0, base |-> 0]

\* One iteration of the loop of readAllSpans.
SiReadSpan ==
    /\ si.op \in {"init", "readAllSpans"}
    /\ si.i < Len(si.allspans)
    /\ LET k == si.i + 1
           sp == si.allspans[k]
       IN  si' = [si EXCEPT
                    !.op = "readAllSpans",
                    !.i = k,
                    !.arenaInfo =
                        IF sp.state # "inUse" THEN @
                        ELSE SiAllocPages(si.cfg, @, sp.base,
                                          Add(sp.base, SiSpanSize(sp)), k)]
    /\ UNCHANGED <<runVars, bitVars, mapVars, pbVars, mcVars, orVars,
                   arVars, gcVars, swVars>>

\* s.findSpanAndBase(addr), once the index is built.
SiFind ==
    /\ si.op \in {"readAllSpans", "find"}
    /\ si.i = Len(si.allspans)
    /\ \E addr \in SiAddrs :
          LET r == SiFindSpanAndBase(si.cfg, si.allspans, si.arenaInfo, addr)
          IN  si' = [si EXCEPT !.op = "find", !.addr = addr, !.sp = r.sp,
                               !.base = r.base]
    /\ UNCHANGED <<runVars, bitVars, mapVars, pbVars, mcVars, orVars,
                   arVars, gcVars, swVars>>

SiNext == SiReadSpan \/ SiFind

SiSpec == SiInit /\ [][SiNext]_vars

-----------------------------------------------------------------------------
\* copyGCMask and readType (heap.go) on runtimes with allocation headers
\* (enableAllocHeader).  A mask word has 64 bits, one for every 8 bytes, and
\* is the set of its bit numbers.  The GC data of a type in target memory is
\* a stream of bits: the pointer bits of the words of the type below
\* PtrBytes, zero bits up to the end of the last byte, and then whatever
\* follows the bitmap in memory.

\* runtime.minSizeForMallocHeader
minSizeForMallocHeader == 512

\* The number of objects touched in one span.
GcMaxTouch == 2

\* The spans: of small objects with the heap bits in the span, of objects
\* with an allocation header, without pointers (noscan), and of one large
\* object (sizeclass 0).
GcSpans ==
    { [base |-> 8192, elemSize |-> 64,   spanSize |-> 1024, noscan |-> FALSE, sizeclass |-> 5],
      [base |-> 8192, elemSize |-> 640,  spanSize |-> 2048, noscan |-> FALSE, sizeclass |-> 35],
      [base |-> 8192, elemSize |-> 640,  spanSize |-> 2048, noscan |-> TRUE,  sizeclass |-> 35],
      [base |-> 8192, elemSize |-> 1024, spanSize |-> 1024, noscan |-> FALSE, sizeclass |-> 0] }

\* The types: Size_, PtrBytes and the words of the type that hold pointers.
GcTypes ==
    { [size |-> 128,  ptrBytes |-> 8,   ptrs |-> {0}],
      [size |-> 192,  ptrBytes |-> 16,  ptrs |-> {0, 1}],
      [size |-> 632,  ptrBytes |-> 520, ptrs |-> {0, 63, 64}],
      [size |-> 1024, ptrBytes |-> 72,  ptrs |-> {8}],
      [size |-> 16,   ptrBytes |-> 0,   ptrs |-> {}],
      [size |-> 0,    ptrBytes |-> 0,   ptrs |-> {}] }

\* maskLen of readAllSpans.
GcMaskLen(sp) ==
    (sp.spanSize \div 8) \div 64 + (IF (sp.spanSize \div 8) % 64 # 0 THEN 1 ELSE 0)

\* spanInfo.elemEnd
GcElemEnd(sp, base) ==
    LET end == Add(base, sp.elemSize)
    IN  IF end > Add(sp.base, sp.spanSize) THEN Add(sp.base, sp.spanSize) ELSE end

\* Bit i of the memory at the type's GCData.
GcDataBit(typ, follow, i) ==
    IF i < typ.ptrBytes \div 8 THEN i \in typ.ptrs
    ELSE IF i < 8 * CeilDivide(typ.ptrBytes \div 8, 8) THEN FALSE
    ELSE follow

\* readUintRaw(mem, gcDataAddr.Add(off), 8): the 64 bits from byte off on.
GcReadMask(typ, follow, off) == {j \in 0..63 : GcDataBit(typ, follow, 8 * off + j)}

\* if addr.Add(8*64) > end { headBits = end.Sub(addr) / 8; mask &^= ... }
GcClip(mask, typ, elem, addr, end) ==
    IF Add(addr, 8 * 64) > end
    THEN {j \in mask : j < Sub(end, addr) \div 8}
    ELSE mask

\* sp.ptrMask[idx] |= mask << bit, and the rest of the mask into idx+1.
GcOrMask(sp, pm, addr, mask) ==
    LET offset == Sub(addr, sp.base)
        idx == (offset \div 8) \div 64
        bit == (offset \div 8) % 64
    IN  [w \in DOMAIN pm |->
            IF w = idx THEN pm[w] \cup {j + bit : j \in {x \in mask : x + bit < 64}}
            ELSE IF w = idx + 1 /\ idx + 1 < GcMaskLen(sp)
                 THEN pm[w] \cup {j - (64 - bit) : j \in {x \in mask : x >= 64 - bit}}
            ELSE pm[w]]

\* The loop of readType.
RECURSIVE GcReadLoop(_, _, _, _, _, _, _)
GcReadLoop(sp, typ, follow, pm, elem0, addr0, end) ==
    LET over == addr0 >= Add(elem0, typ.ptrBytes)
        elem == IF over THEN Add(elem0, typ.size) ELSE elem0
        addr == IF over THEN elem ELSE addr0
    IN  IF addr >= end THEN pm
        ELSE LET mask == GcClip(GcReadMask(typ, follow, Sub(addr, elem) \div 64),
                                typ, elem, addr, end)
             IN  GcReadLoop(sp, typ, follow, GcOrMask(sp, pm, addr, mask),
                            elem, Add(addr, 8 * 64), end)

\* HeapScope.readType(sp, typeAddr, addr, end), the type at typeAddr being typ.
GcReadType(sp, typ, follow, pm, addr, end) ==
    IF typ.size = 0 THEN pm
    ELSE IF typ.ptrBytes = 0 THEN pm
    ELSE GcReadLoop(sp, typ, follow, pm, addr, addr, end)

\* HeapScope.copyGCMask(sp, base): realBase and the ptrMask afterwards; typ
\* is the type of the object's header, or the span's largeType.
GcCopyGCMask(sp, typ, follow, pm, base) ==
    IF sp.noscan THEN [realBase |-> base, ptrMask |-> pm]
    ELSE IF sp.elemSize <= minSizeForMallocHeader THEN [realBase |-> base, ptrMask |-> pm]
    ELSE IF sp.sizeclass # 0
         THEN [realBase |-> Add(base, 8),
               ptrMask |-> GcReadType(sp, typ, follow, pm, Add(base, 8), GcElemEnd(sp, base))]
         ELSE [realBase |-> base,
               ptrMask |-> GcReadType(sp, typ, follow, pm, base, GcElemEnd(sp, base))]

\* The bases of the elements of sp.
GcBases(sp) ==
    {a \in sp.base..(sp.base + sp.spanSize - 1) : (a - sp.base) % sp.elemSize = 0}

GcInit ==
    /\ RunIdle
    /\ BitsIdle
    /\ MapIdle
    /\ PbIdle
    /\ McIdle
    /\ OrIdle
    /\ ArIdle
    /\ SiIdle
    /\ SwIdle
    /\ \E sp \in GcSpans, follow \in BOOLEAN :
          gc = [op |-> "init", sp |-> sp, follow |-> follow,
                ptrMask |-> [w \in 0..(GcMaskLen(sp) - 1) |->
                                IF sp.elemSize <= minSizeForMallocHeader /\ ~sp.noscan
                                THEN {0, 9} ELSE {}],
                touched |-> {}]

\* The first touch of the object at base (findObject or markObject, after
\* sp.mark(base) returned true): realBase := s.copyGCMask(sp, base).
GcTouch ==
    /\ gc.op \in {"init", "touch"}
    /\ Cardinality(gc.touched) < GcMaxTouch
    /\ \E base \in GcBases(gc.sp), typ \in GcTypes :
          /\ \A t \in gc.touched : t.base # base
          /\ LET r == GcCopyGCMask(gc.sp, typ, gc.follow, gc.ptrMask, base)
             IN  gc' = [gc EXCEPT
                          !.op = "touch",
                          !.ptrMask = r.ptrMask,
                          !.touched = @ \cup {[base |-> base, typ |-> typ,
                                               realBase |-> r.realBase,
                                               end |-> GcElemEnd(gc.sp, base),
                                               before |-> gc.ptrMask]}]
    /\ UNCHANGED <<runVars, bitVars, mapVars, pbVars, mcVars, orVars,
                   arVars, siVars, swVars>>

GcNext == GcTouch

GcSpec == GcInit /\ [][GcNext]_vars

-----------------------------------------------------------------------------
\* The swiss map iterator (mapiter.go): loadTypes, next, loadCurrentTable and
\* loadCurrentGroup, with dereference and findObject (variables.go,
\* reference.go).  The objects of the map in target memory are its directory,
\* its tables and the group arrays of the tables; findObject returns nil for
\* an object that is marked already.  A group is the set of its full slots.
\* Keys and elems are stored in the slots and hold no pointers.

\* abi.SwissMapGroupSlots, the Count of the slots array of a group.
SwSlots == 2

SwTableIds == {"A", "B", "C", "D"}

\* The directories: every table fills an aligned run of 2^k entries.
SwDirs ==
    { <<"A">>, <<"A", "B">>, <<"A", "A">>,
      <<"A", "A", "B", "B">>, <<"A", "B", "C", "C">>, <<"A", "A", "B", "C">>,
      <<"A", "B", "C", "D">>, <<"A", "A", "A", "A">> }

\* The group arrays of the tables.
SwContents ==
    { [t \in SwTableIds |-> << {0, 1} >>],
      ("A" :> << {0}, {1} >> @@ "B" :> << {}, {0, 1} >> @@ "C" :> << {1} >> @@ "D" :> << {} >>),
      ("A" :> << {} >> @@ "B" :> << {0} >> @@ "C" :> << {0, 1}, {0} >> @@ "D" :> << {1} >>) }

\* table.index of the tables of a directory: the first entry of the table.
SwIndexOf(dir, t) ==
    (CHOOSE i \in DOMAIN dir : dir[i] = t /\ \A j \in DOMAIN dir : dir[j] = t => i <= j) - 1

SwNoTable == [nil |-> TRUE, id |-> "", index |-> 0, ngroups |-> 0]

\* &mapIteratorSwiss{...} of toMapIterator, with dirLen read from the map.
SwIterator(m) ==
    [dirLen |-> IF m.small THEN 0 ELSE Len(m.dir), maxNumGroups |-> 0,
     dirIdx |-> 0, tab |-> SwNoTable, groupIdx |-> 0, group |-> FALSE,
     slotIdx |-> 0, groupCount |-> 0, objects |-> <<>>]

\* v.dereference(s) of a pointer to the object o: findObject marks o and
\* returns its variable, or returns nil when o is marked already.
SwDereference(marked, o) ==
    IF o \in marked THEN [nil |-> TRUE, marked |-> marked]
    ELSE [nil |-> FALSE, marked |-> marked \cup {o}]

\* mapIteratorSwiss.loadTypes, from the dereference of dirPtr on.
SwLoadTypes(itr, m, marked) ==
    IF itr.dirLen <= 0
    THEN LET d == SwDereference(marked, <<"groups", m.dir[1]>>)
         IN  IF d.nil THEN [err |-> TRUE, it |-> itr, marked |-> d.marked]
             ELSE [err |-> FALSE, marked |-> d.marked,
                   it |-> [itr EXCEPT
                             !.objects = Append(@, <<"groups", m.dir[1]>>),
                             !.dirLen = 1,
                             !.tab = [nil |-> FALSE, id |-> m.dir[1], index |-> 0,
                                      ngroups |-> 1]]]
    ELSE LET d == SwDereference(marked, <<"dir">>)
         IN  IF d.nil THEN [err |-> TRUE, it |-> itr, marked |-> d.marked]
             ELSE [err |-> FALSE, marked |-> d.marked,
                   it |-> [itr EXCEPT !.objects = Append(@, <<"dir">>)]]

\* mapIteratorSwiss.nextTable
SwNextTable(itr) == [itr EXCEPT !.dirIdx = @ + 1, !.tab = SwNoTable]

\* mapIteratorSwiss.nextGroup
SwNextGroup(itr) == [itr EXCEPT !.groupIdx = @ + 1, !.group = FALSE]

\* mapIteratorSwiss.loadCurrentTable
SwLoadCurrentTable(itr, m, marked) ==
    LET id == m.dir[itr.dirIdx + 1]
        tab == SwDereference(marked, <<"table", id>>)
    IN  IF tab.nil THEN [err |-> TRUE, it |-> itr, marked |-> tab.marked]
        ELSE LET it1 == [itr EXCEPT !.objects = Append(@, <<"table", id>>)]
                 groups == SwDereference(tab.marked, <<"groups", id>>)
             IN  IF groups.nil THEN [err |-> TRUE, it |-> it1, marked |-> groups.marked]
                 ELSE [err |-> FALSE, marked |-> groups.marked,
                       it |-> [it1 EXCEPT
                                 !.objects = Append(@, <<"groups", id>>),
                                 !.tab = [nil |-> FALSE, id |-> id,
                                          index |-> m.index[id],
                                          ngroups |-> Len(m.groups[id])]]]

\* mapIteratorSwiss.next: the result, the iterator afterwards and the slot
\* yielded.  The loop over the slots of a group is the search for the first
\* full slot from slotIdx on.
RECURSIVE SwNextLoop(_, _, _)
SwNextLoop(itr, m, marked) ==
    LET no == [table |-> "", group |-> 0, slot |-> 0]
    IN
    IF ~(itr.dirIdx < itr.dirLen)
    THEN [ok |-> FALSE, it |-> itr, marked |-> marked, cur |-> no]
    ELSE IF itr.tab.nil
    THEN LET l == SwLoadCurrentTable(itr, m, marked)
         IN  IF l.err THEN [ok |-> FALSE, it |-> l.it, marked |-> l.marked, cur |-> no]
             ELSE IF l.it.tab.index # l.it.dirIdx
                  THEN SwNextLoop(SwNextTable(l.it), m, l.marked)
                  ELSE SwNextLoop(l.it, m, l.marked)
    ELSE IF itr.groupIdx < itr.tab.ngroups
    THEN IF itr.maxNumGroups > 0 /\ itr.groupIdx + itr.groupCount >= itr.maxNumGroups
         THEN [ok |-> FALSE, it |-> itr, marked |-> marked, cur |-> no]
         ELSE LET full == {k \in m.groups[itr.tab.id][itr.groupIdx + 1] :
                              k >= itr.slotIdx /\ k < SwSlots}
              IN  IF full # {}
                  THEN LET k == CHOOSE x \in full : \A y \in full : x <= y
                       IN  [ok |-> TRUE, marked |-> marked,
                            it |-> [itr EXCEPT !.group = TRUE, !.slotIdx = k + 1],
                            cur |-> [table |-> itr.tab.id, group |-> itr.groupIdx,
                                     slot |-> k]]
                  ELSE SwNextLoop(SwNextGroup([itr EXCEPT !.slotIdx = 0]), m, marked)
    ELSE SwNextLoop(SwNextTable([itr EXCEPT !.groupCount = @ + itr.groupIdx,
                                          !.groupIdx = 0, !.group = FALSE]),
                    m, marked)

SwInit ==
    /\ RunIdle
    /\ BitsIdle
    /\ MapIdle
    /\ PbIdle
    /\ McIdle
    /\ OrIdle
    /\ ArIdle
    /\ SiIdle
    /\ GcIdle
    /\ \E dir \in SwDirs, groups \in SwContents, small \in BOOLEAN :
          /\ small => (Len(dir) = 1 /\ Len(groups[dir[1]]) = 1)
          /\ LET m == [small |-> small, dir |-> dir, groups |-> groups,
                       index |-> [t \in SwTableIds |->
                                    IF \E i \in DOMAIN dir : dir[i] = t
                                    THEN SwIndexOf(dir, t) ELSE 0 - 1]]
             IN  sw = [op |-> "init", m |-> m, it |-> SwIterator(m), marked |-> {},
                       yielded |-> <<>>]

\* toMapIterator for a swiss map: itswiss.loadTypes(s).
SwToMapIterator ==
    /\ sw.op = "init"
    /\ LET l == SwLoadTypes(sw.it, sw.m, sw.marked)
       IN  sw' = [sw EXCEPT !.op = IF l.err THEN "done" ELSE "iter",
                            !.it = l.it, !.marked = l.marked]
    /\ UNCHANGED <<runVars, bitVars, mapVars, pbVars, mcVars, orVars,
                   arVars, siVars, gcVars>>

\* One round of for it.next(s) { ... } (reference.go).
SwNext ==
    /\ sw.op = "iter"
    /\ LET r == SwNextLoop(sw.it, sw.m, sw.marked)
       IN  sw' = [sw EXCEPT !.op = IF r.ok THEN "iter" ELSE "done",
                            !.it = r.it, !.marked = r.marked,
                            !.yielded = IF r.ok THEN Append(@, r.cur) ELSE @]
    /\ UNCHANGED <<runVars, bitVars, mapVars, pbVars, mcVars, orVars,
                   arVars, siVars, gcVars>>

SwSpecNext == SwToMapIterator \/ SwNext

SwSpec == SwInit /\ [][SwSpecNext]_vars

-----------------------------------------------------------------------------
\* Claims about the analyzer run.

\* The sum of the bytes of the samples of nd.
RECURSIVE SumBytes(_, _)
SumBytes(nd, K) ==
    IF K = {} THEN 0
    ELSE LET k == CHOOSE x \in K : TRUE
         IN  nd[k].size + SumBytes(nd, K \ {k})

\* C1: at the end of a run, the bytes of all emitted samples add up to the
\* element sizes of all heap objects reachable from the GC roots.
C1_BytesConserved ==
    phase = "done" =>
        SumBytes(nodes, DOMAIN nodes) = Layout.elemSize * Cardinality(Reachable(tgt))

\* The calls of spanInfo.mark made so far on the object at base b.
MarksOf(b) == SelectSeq(hist.marks, LAMBDA m : m.base = b)

\* C2: over a run, through findObject and markObject together, mark returns
\* true on exactly one call for an object's base (the first) and false on
\* every other call.
C2_MarkTrueOnce ==
    \A k \in DOMAIN hist.marks :
        LET s == MarksOf(hist.marks[k].base)
        IN  /\ s[1].ok
            /\ \A i \in 2..Len(s) : ~s[i].ok

C2_Witness ==
    /\ phase = "done"
    /\ \E k \in DOMAIN hist.marks :
          LET s == MarksOf(hist.marks[k].base)
          IN  /\ Len(s) >= 3
              /\ \E i, j \in DOMAIN s : s[i].by = "findObject" /\ s[j].by = "markObject"

FindRefActive == \E i \in DOMAIN stack : stack[i].fn = "findRef"

\* The number of findRef calls ObjectReference makes on roots.
NumRoots(t) ==
    Cardinality({i \in DOMAIN t.globals : t.globals[i].Addr # 0})
      + Cardinality({i \in DOMAIN t.locals : t.locals[i].Addr # 0})
      + 2 * Len(t.finalizers)

\* C3: once a step of finalMark or markObject has been made, every root's
\* findRef call (globals, locals, finalizers) has been made and has
\* returned, and no findRef call is made any more.
C3_FinalMarkAfterWalks ==
    [][hist'.fmSteps > 0 =>
          /\ hist'.calls = hist.calls
          /\ ~FindRefActive'
          /\ hist'.roots = NumRoots(tgt)]_vars

C3_Witness ==
    /\ phase = "done"
    /\ Len(tgt.finalizers) > 0
    /\ tgt.mem[L0Addr] # 0
    /\ \E k \in DOMAIN hist.marks : hist.marks[k].by = "markObject" /\ hist.marks[k].ok

\* C7: on a target whose object graph has a cycle, the run comes to its end:
\* neither the typed walk nor the flood fill goes on forever.
C7_RunEnds == <>(phase \in {"done", "panic"})

C7_Witness ==
    /\ phase = "done"
    /\ HasCycle(tgt)
    /\ \E k \in DOMAIN hist.marks :
          hist.marks[k].by = "findObject" /\ ~hist.marks[k].ok /\ hist.marks[k].open
    /\ \E k \in DOMAIN hist.marks :
          hist.marks[k].by = "markObject" /\ ~hist.marks[k].ok /\ hist.marks[k].open

\* C8: a findRef call on a named variable whose incoming chain has depth
\* maxRefDepth or more returns in one step that reads no target memory,
\* marks nothing, clears no ptrMask bit, records no sample and adds nothing
\* to the finalMarks.
C8_RefusalTouchesNothing ==
    [][(/\ stack # <<>>
        /\ top.fn = "findRef" /\ top.pc = "enter"
        /\ top.x.Name # ""
        /\ top.idx # <<>> /\ Len(top.idx) - 1 >= maxRefDepth)
          => /\ Len(stack') = Len(stack) - 1
             /\ hist'.reads = hist.reads
             /\ hist'.marks = hist.marks
             /\ visitMask' = visitMask
             /\ segVisit' = segVisit
             /\ ptrMask' = ptrMask
             /\ nodes' = nodes
             /\ finalMarks' = finalMarks]_vars

C8_Witness ==
    /\ phase = "done"
    /\ hist.refusals >= 2
    /\ \A k \in DOMAIN nodes : Len(k) - 1 <= maxRefDepth
    /\ \E k \in DOMAIN nodes : Len(k) - 1 = maxRefDepth

\* The samples a run has emitted: the nodes, once they are flushed.
Emitted == IF phase = "done" THEN nodes ELSE <<>>

\* C9: when the run on a list deeper than maxRefDepth is over, exactly
\* maxRefDepth named edges below the root's have been emitted along the chain.
C9_NamedEdgesAlongChain ==
    (phase \in {"done", "panic"} /\ Cardinality(tgt.objs) > maxRefDepth)
        => Cardinality({k \in DOMAIN Emitted : Len(k) >= 2}) = maxRefDepth

-----------------------------------------------------------------------------
\* Claims about the profile builder.

RECURSIVE SumLog(_, _, _)
SumLog(log, us, f) ==
    IF log = <<>> THEN 0
    ELSE (IF Head(log).indexes = us THEN Head(log)[f] ELSE 0) + SumLog(Tail(log), us, f)

LogChains == {pbLog[i].indexes : i \in DOMAIN pbLog}

\* C11: after any sequence of addReference calls the entry of each chain
\* holds the sum of the counts and the sum of the bytes of the calls made
\* with that chain, in whatever order they were made, and two different
\* chains never share an entry.
C11_ChainSums ==
    /\ DOMAIN pbNodes = {uint64s2str(us) : us \in LogChains}
    /\ \A us \in LogChains :
          pbNodes[uint64s2str(us)] =
              [count |-> SumLog(pbLog, us, "count"), size |-> SumLog(pbLog, us, "bytes")]
    /\ \A us, vs \in LogChains : us # vs => uint64s2str(us) # uint64s2str(vs)

C11_Witness ==
    /\ Cardinality(LogChains) >= 2
    /\ \E i, j \in DOMAIN pbLog :
          i < j /\ pbLog[i].indexes = pbLog[j].indexes /\ Len(pbLog[i].indexes) = 2

\* C12: in a flushed profile every location id of every sample has a
\* location record, the function of that record has a function record, and
\* the name of that function is an index of the string table.
C12_LocationsDefined ==
    pbOut.flushed =>
        \A s \in pbOut.sample : \A k \in DOMAIN s.location_id :
            \E l \in pbOut.location :
                /\ l.id = s.location_id[k]
                /\ \E f \in pbOut.function :
                      /\ f.id = l.line.function_id
                      /\ f.name >= 0
                      /\ f.name < Len(pbOut.string_table)

C12_Witness ==
    /\ pbOut.flushed
    /\ \E s \in pbOut.sample : Len(s.location_id) = 2 /\ s.location_id[1] # s.location_id[2]

\* The heap objects reachable from the package variables of a target.
GlobalReach(t) == ReachFrom(t, BasesOf({t.mem[t.globals[i].Addr] : i \in DOMAIN t.globals}))

\* C13: an object that a local variable and a finalizer record both point
\* to, and no package variable reaches, is attributed with count 1 and its
\* element size to the local variable's root edge, and not to the
\* finalizer's edge.
C13_LocalBeforeFinalizer ==
    (/\ phase \in {"done", "panic"}
     /\ tgt.mem[L0Addr] = ObjB
     /\ \E i \in DOMAIN tgt.finalizers : tgt.finalizers[i].p = ObjB
     /\ ObjB \notin GlobalReach(tgt))
        => /\ <<"main.run.L0">> \in DOMAIN Emitted
           /\ Emitted[<<"main.run.L0">>] = [count |-> 1, size |-> Layout.elemSize]
           /\ <<"finalized">> \notin DOMAIN Emitted

-----------------------------------------------------------------------------
\* Claims about the memory cache.

\* Whether the last read lies wholly inside [addr, addr + size).
ReadInside(addr, size) ==
    mcLast.addr >= addr /\ mcLast.addr + mcLast.n <= addr + size

McOwnBuffer ==
    /\ mc.size > 0 /\ mc.size <= cacheThreshold
    /\ mc.addr + mc.size < AddrMod
    /\ ~(mc.given.kind = "cache" /\ contains(mc.given, mc.addr, mc.size))

-----------------------------------------------------------------------------
\* Claims about the start of ObjectReference.

\* C15: when ObjectReference returns an error of its initialization because
\* a runtime symbol or the module data could not be located, the output file
\* has not been created or written.
C15_NoFileOnInitFailure ==
    (/\ orStep = "returned"
     /\ orRet \in {"runtime.mheap_", "runtime.firstmoduledata", "LoadModuleData"})
        => orFile = "absent"

\* C16: the final-mark entry queued when findRef returns from an unnamed
\* heap object whose iterator still has a set bit carries the chain of its
\* parent extended by $sub_objects$, so that the bytes final mark finds for
\* it go to a sample of their own and not to the parent's named sample.
C16_SubObjectsChain ==
    \A i \in DOMAIN finalMarks :
        finalMarks[i].mask = "span"
            => /\ finalMarks[i].idx # <<>>
               /\ finalMarks[i].idx[Len(finalMarks[i].idx)] = "$sub_objects$"

\* C17: the two roots of every finalizer record are given to the walker
\* under the names runtime.SetFinalizer.obj (the finalized object) and
\* runtime.SetFinalizer.fn (the finalizer function).
C17_FinalizerRootNames ==
    (phase = "finalizers" /\ stack # <<>>)
        => stack[1].x.Name =
               (IF stack[1].x.typ = "finalizePtrType" THEN "runtime.SetFinalizer.obj"
                ELSE "runtime.SetFinalizer.fn")

-----------------------------------------------------------------------------
\* The bases of the elements of the span.
ElemBases ==
    {Add(Layout.spanBase, k * Layout.elemSize) :
        k \in 0..((Layout.spanSize \div Layout.elemSize) - 1)}

\* Whether the pointer bit of the word at addr is set in the span's ptrMask.
PtrBitSet(mask, addr) ==
    LET offset == Sub(addr, Layout.spanBase)
    IN  ((offset \div 8) % 64) \in mask[(offset \div 8) \div 64]

\* The typed pass (globals, locals, finalizers) has just finished: finalMark
\* has not yet taken a step.
TypedPassDone ==
    /\ phase = "finalMark"
    /\ stack = <<>>
    /\ fmIdx = 1
    /\ hist.fmSteps = 0

\* C18: when the typed pass has finished, every heap object marked visited
\* during it (a channel header included) that still has a set ptrMask bit
\* inside [base, elemEnd) has an entry in finalMarks whose iterator covers
\* that bit.
C18_MarkedObjectsQueued ==
    TypedPassDone =>
        \A b \in ElemBases :
            ~spanMark(visitMask, b).ok =>
                \A a \in WordsOf(b, elemEnd(b)) :
                    PtrBitSet(ptrMask, a) =>
                        \E i \in DOMAIN finalMarks :
                            /\ finalMarks[i].mask = "span"
                            /\ finalMarks[i].hb.addr <= a
                            /\ a < finalMarks[i].hb.end

\* The heap objects whose visit bit is set.
Marked == {b \in ElemBases : ~spanMark(visitMask, b).ok}

RECURSIVE SumCount(_, _)
SumCount(nd, K) ==
    IF K = {} THEN 0
    ELSE LET k == CHOOSE x \in K : TRUE
         IN  nd[k].count + SumCount(nd, K \ {k})

\* C19: when a run is over, every heap object that a step of it marked
\* visited has been added, with count one and its element size, to exactly
\* one emitted sample: the counts of the samples add up to the number of
\* marked objects and their bytes to the element sizes of these objects.
C19_MarkedObjectsCounted ==
    phase \in {"done", "panic"} =>
        /\ SumCount(Emitted, DOMAIN Emitted) = Cardinality(Marked)
        /\ SumBytes(Emitted, DOMAIN Emitted) = Layout.elemSize * Cardinality(Marked)

\* Claims about the map iterator.

\* A bucket and the overflow buckets chained to it.
RECURSIVE ChainOf(_, _)
ChainOf(m, ref) ==
    {ref} \cup (IF BucketOf(m, ref).overflow = 0 THEN {}
                ELSE ChainOf(m, [kind |-> "ovf", i |-> BucketOf(m, ref).overflow]))

\* The occupied cells of a map: the cells with an entry in the buckets, in
\* the old buckets that are not evacuated, and in their overflow chains.
Occupied(m) ==
    LET heads == {[kind |-> "new", i |-> j - 1] : j \in DOMAIN m.buckets}
                   \cup {[kind |-> "old", i |-> o - 1] :
                           o \in {x \in DOMAIN m.oldbuckets :
                                     ~mapEvacuated(m, [kind |-> "old", i |-> x - 1])}}
        refs == UNION {ChainOf(m, h) : h \in heads}
    IN  {c \in [b : refs, idx : 0..(BucketCnt - 1)] :
            BucketOf(m, c.b).tophash[c.idx + 1] >= hashMinTopHash}

\* C10: the iterator yields no cell twice, and when the iteration is over it
\* has yielded every occupied cell of the map, also while the map grows, be
\* it to twice its size or to the same size.
C10_EveryCellOnce ==
    /\ \A i, j \in DOMAIN yielded : i # j => yielded[i] # yielded[j]
    /\ it.state \in {"end", "panic"}
          => {yielded[i] : i \in DOMAIN yielded} = Occupied(hm)

\* Whether a cell whose tophash byte was read lies inside the window of the
\* variable it was read through: a bucket array found by findObject has the
\* window of its object, which holds Len(array) buckets, and an overflow
\* bucket the window of its own object.
CellInWindow(m, cell) ==
    /\ cell.idx < BucketCnt
    /\ CASE cell.b.kind = "new" -> cell.b.i < Len(m.buckets)
         [] cell.b.kind = "old" -> cell.b.i < Len(m.oldbuckets)
         [] OTHER -> cell.b.i \in DOMAIN m.ovf

\* C21: every read of target memory made on behalf of a variable that
\* carries an iterator is at an address inside the iterator's window; here,
\* every tophash byte that the map iterator reads lies inside the object of
\* the bucket array it is read through.
C21_ReadsInsideWindow ==
    \A k \in DOMAIN mapRead : CellInWindow(hm, mapRead[k])

-----------------------------------------------------------------------------
\* Claims about the iterator.

\* The k-th smallest element of a finite set of numbers (k from 1).
RECURSIVE KthSmallest(_, _)
KthSmallest(S, k) ==
    LET m == CHOOSE x \in S : \A y \in S : x <= y
    IN  IF k = 1 THEN m ELSE KthSmallest(S \ {m}, k - 1)

\* The next larger element of S after a, or 0 when there is none.
NextLarger(S, a) ==
    IF \E x \in S : x > a
    THEN CHOOSE x \in S : x > a /\ \A y \in S : y > a => x <= y
    ELSE 0

\* C4: when nextPtr(false) returned a, after resetGCMask(a) the next
\* nextPtr(false) returns the next larger offset that was set, or 0 when a
\* was the last one.
C4_ResetAdvancesPeek ==
    bLast.op = "testIter" =>
        /\ bLast.err = "nil"
        /\ bLast.ret = NextLarger(bLast.before, bLast.at)

\* C5: nextPtr(true), called repeatedly on a fresh iterator, returns the
\* addresses of the set bits of the window in ascending order, each once,
\* and 0 from then on.
C5_DrainAscending ==
    bMode.mode = "drain" =>
        \A i \in 1..Len(bOut) :
            bOut[i] = IF i <= Cardinality(bMode.O) THEN KthSmallest(bMode.O, i) ELSE 0

C5_Witness ==
    /\ bMode.mode = "drain"
    /\ Cardinality(bMode.O) >= 4
    /\ Len(bOut) = Cardinality(bMode.O) + 1
    /\ bOut[Len(bOut)] = 0
    /\ bHb.base # bHb.maskBase

\* C6: readPointer(at) with at outside [hb.base, hb.end) returns OutOfRange,
\* reads no target memory and changes no bit of the mask.
C6_ReadPointerOutOfRange ==
    [][(bLast'.op = "readPointer" /\ (bLast'.at < bHb.base \/ bLast'.at >= bHb.end))
          => (bLast'.err = "OutOfRange" /\ bReads' = bReads /\ bMask' = bMask)]_vars

C6_Witness ==
    /\ bLast.op = "readPointer"
    /\ bLast.at >= bHb.end
    /\ bLast.err = "OutOfRange"
    /\ bReads > 0
    /\ bLast.before # {}

\* The mask with only the bit of the word at addr cleared.
OwnBitCleared(hb, mask, addr) ==
    LET offset == Sub(addr, hb.maskBase)
    IN  [mask EXCEPT ![(offset \div 8) \div 64] = @ \ {(offset \div 8) % 64}]

\* C20: a resetGCMask(addr) with addr inside [base, end), made by the test's
\* loop or by readPointer, never indexes past the end of the mask and leaves
\* the mask as it was except for the bit of addr, which is clear afterwards.
C20_ResetOnlyOwnBit ==
    [][(/\ bLast'.op \in {"testIter", "readPointer"}
        /\ bLast'.at >= bHb.base
        /\ bLast'.at < bHb.end)
          => (/\ bLast'.err # "panic"
              /\ bMask' = OwnBitCleared(bHb, bMask, bLast'.at))]_vars

-----------------------------------------------------------------------------
\* Claims about address arithmetic and CeilDivide.

\* C29: a.Sub(b) with b the larger address saturates (it returns 0 and does
\* not wrap), and a.Add(x) never returns the wrapped value of a sum that
\* lies outside the address range.
C29_SubSaturatesAddChecked ==
    /\ (ar.op = "Sub" /\ ar.a < ar.b) => ar.ret = 0
    /\ (ar.op = "Add" /\ ar.a + ar.b \notin 0..(AddrMod - 1))
          => ar.ret # (ar.a + ar.b) % AddrMod

\* C30: for n >= 0 and d > 0 up to n = MaxInt, CeilDivide(n, d) is the
\* smallest q with q * d >= n, and no step of it overflows.
C30_CeilDivideSmallest ==
    ar.op = "CeilDivide" =>
        /\ ar.ret \in 0..MaxInt
        /\ ar.ret * ar.b >= ar.a
        /\ ar.ret = 0 \/ (ar.ret - 1) * ar.b < ar.a

C30_Witness ==
    /\ ar.op = "CeilDivide"
    /\ ar.a = MaxInt
    /\ ar.b = 2
    /\ ar.ret = (MaxInt + 1) \div 2

-----------------------------------------------------------------------------
\* Further claims about the analyzer run.

\* C24: no step of a run clears a set bit of a span's or a segment's
\* visitMask.
C24_VisitedStaysVisited ==
    [][/\ \A w \in DOMAIN visitMask : visitMask[w] \subseteq visitMask'[w]
       /\ \A s \in DOMAIN segVisit :
             \A w \in DOMAIN segVisit[s] : segVisit[s][w] \subseteq segVisit'[s][w]]_vars

C24_Witness ==
    /\ phase = "done"
    /\ \E w \in DOMAIN visitMask : Cardinality(visitMask[w]) >= 2
    /\ \E s \in DOMAIN segVisit : \E w \in DOMAIN segVisit[s] : segVisit[s][w] # {}
    /\ \E i, j \in DOMAIN hist.marks :
          hist.marks[i].by = "findObject" /\ hist.marks[j].by = "markObject"

\* C23: the final-mark entries of stack frames and segments are processed
\* only after every entry queued for a heap object: when finalMark has
\* reached an entry of a frame or a segment, no entry of a heap object
\* comes after it in the queue.
C23_ResiduesAfterHeapEntries ==
    phase = "finalMark" =>
        \A i, j \in DOMAIN finalMarks :
            (i <= fmIdx /\ finalMarks[i].mask # "span" /\ finalMarks[j].mask = "span")
                => j < i

\* C22: when a run in which findRef refused a field at the depth bound has
\* flushed its profile, every heap object reachable from the roots is marked
\* and counted: the samples count as many objects as are reachable.
C22_DepthBoundLosesNothing ==
    (phase = "done" /\ hist.refusals > 0) =>
        /\ Reachable(tgt) \subseteq Marked
        /\ SumCount(nodes, DOMAIN nodes) = Cardinality(Reachable(tgt))


-----------------------------------------------------------------------------
\* Further claims about the memory cache.

\* C28: a read that lies wholly inside the range of a memCache returns the
\* same bytes and the same success or failure as the same read of the
\* underlying reader, also when another part of the range is unreadable.
C28_CacheEqualsDirect ==
    (/\ mcLast.op = "read"
     /\ mc.r.kind = "cache"
     /\ contains(mc.r, mcLast.addr, mcLast.n))
        => /\ mcLast.err = memRead(mcLast.addr, mcLast.n).err
           /\ mcLast.data = memRead(mcLast.addr, mcLast.n).data

-----------------------------------------------------------------------------
\* Claims about the span index.

\* C27: once the span index is built, every address inside an in-use span
\* resolves through findSpanAndBase to that span and to the element base
\* base + floor((a - base) / elemSize) * elemSize, and no address resolves
\* to a span that does not contain it.
C27_SpanLookupExact ==
    si.op = "find" =>
        /\ \A k \in DOMAIN si.allspans :
              (si.allspans[k].state = "inUse" /\ SiContains(si.allspans[k], si.addr))
                  => /\ si.sp = k
                     /\ si.base = si.allspans[k].base
                          + ((si.addr - si.allspans[k].base) \div si.allspans[k].elemSize)
                              * si.allspans[k].elemSize
        /\ si.sp # 0 => SiContains(si.allspans[si.sp], si.addr)

\* An address in the second arena of a span of three pages, in the tail
\* behind its last whole element, on a runtime with a two-level index.
C27_Witness ==
    /\ si.op = "find"
    /\ si.cfg.arenaL1Bits = 1
    /\ si.sp # 0
    /\ si.allspans[si.sp].npages = 3
    /\ si.addr = 60
    /\ si.base = 40

-----------------------------------------------------------------------------
\* Claims about the GC mask of allocation-header runtimes.

\* The word addresses whose ptrMask bit the touches have set.
GcSetWords ==
    {gc.sp.base + 8 * (64 * w + j) : w \in DOMAIN gc.ptrMask, j \in 0..63}
        \ {a \in {gc.sp.base + 8 * (64 * w + j) : w \in DOMAIN gc.ptrMask, j \in 0..63} :
             LET k == (a - gc.sp.base) \div 8
             IN  \/ k % 64 \notin gc.ptrMask[k \div 64]
                 \/ \A t \in gc.touched : k % 64 \in t.before[k \div 64]}

\* C26: the first touch of an object sets ptrMask bits only for words inside
\* the object whose offset inside their element is below the type's
\* PtrBytes, whatever follows the type's GC data in target memory.
C26_BitsBelowPtrBytes ==
    gc.op = "touch" =>
        \A a \in GcSetWords :
            \E t \in gc.touched :
                /\ a >= t.realBase /\ a < t.end
                /\ t.typ.size > 0
                /\ (a - t.realBase) % t.typ.size < t.typ.ptrBytes

-----------------------------------------------------------------------------
\* Claims about the swiss map iterator.

\* The full slots of the tables of the directory.
SwOccupied ==
    {[table |-> t, group |-> g - 1, slot |-> k] :
        t \in {sw.m.dir[i] : i \in DOMAIN sw.m.dir},
        g \in 1..SwSlots, k \in 0..(SwSlots - 1)}
      \cap {c \in [table : SwTableIds, group : 0..(SwSlots - 1), slot : 0..(SwSlots - 1)] :
              /\ c.group < Len(sw.m.groups[c.table])
              /\ c.slot \in sw.m.groups[c.table][c.group + 1]}

\* C25: for a swiss map whose directory holds the same table in several
\* entries, the iteration yields every occupied slot of every distinct table
\* exactly once, and does not stop at the first repeated entry.
C25_SwissEverySlotOnce ==
    (/\ sw.op = "done"
     /\ \E i, j \in DOMAIN sw.m.dir : i # j /\ sw.m.dir[i] = sw.m.dir[j])
        => /\ {sw.yielded[i] : i \in DOMAIN sw.yielded} = SwOccupied
           /\ \A i, j \in DOMAIN sw.yielded : i # j => sw.yielded[i] # sw.yielded[j]
====
